---------------------------- MODULE Spec2Model ----------------------------
(***************************************************************************)
(* State-machine model of postgres-backup-manager: the configuration store *)
(* (lib/config.js), the local archive and lifecycle engine (lib/backup.js),*)
(* the remote archive and reconciled listing (lib/storage/s3.js), the      *)
(* scheduler (lib/scheduler.js) and the HTTP handlers of server.js.        *)
(*                                                                         *)
(* Conventions.  A JavaScript string that is null, undefined or "" is the  *)
(* empty string "" (the code only ever tests such values for truthiness).  *)
(* A number that is missing or NaN is NaN (-1).  An endpoint is a sequence *)
(* of one-character strings, so that String.includes is computed.  Time is *)
(* counted in whole days.                                                  *)
(***************************************************************************)
EXTENDS Integers, Sequences, FiniteSets, TLC

VARIABLES
  configMode,     \* config.js: let configMode
  manualConfig,   \* config.js: let manualConfig = {database, backup, s3}
  env,            \* process.env, as far as config.js reads it
  lastCall,       \* the last configuration-store call and its outcome
  hist,           \* history of the configuration store, for the claims
  clock,          \* the current day
  nextId,         \* the timestamp the next generated filename embeds
  localFiles,     \* the backup directory: filename -> file, or NULL
  remoteFiles,    \* the bucket under the prefix: filename -> object, or NULL
  procs,          \* the create requests and scheduled jobs in flight
  schedulerTask,  \* scheduler.js: let schedulerTask (TRUE: a task object)
  isRunning,      \* scheduler.js: let isRunning
  currentSchedule,\* scheduler.js: let currentSchedule ("" for null)
  timers,         \* the number of node-cron tasks that are not stopped
  resp,           \* the last event of the engine and its outcome
  lastList,       \* what GET /api/backups returned, when it is the last event
  prev,           \* the event right before the last one
  tempFiles,      \* os.tmpdir(): filename -> the restore_* copies of it
  tempConfig,     \* config.js: let tempConfig
  pool,           \* database.js: let pool, as the configuration it was built from
  s3Client,       \* s3.js: let s3Client, as the options it was built from
  lastConfig,     \* s3.js: let lastConfig, the signature of s3Client
  seen            \* what the last request on a connection used and returned

cfgVars == <<configMode, manualConfig, env>>
archVars == <<clock, nextId, localFiles, remoteFiles>>
schedVars == <<schedulerTask, isRunning, currentSchedule, timers>>
connVars == <<tempConfig, pool, s3Client, lastConfig, seen>>

\* ------------------------------------------------------------------ values

NULL == [null |-> TRUE]
NaN == -1

Truthy(s) == s # ""

\* parseInt(x) || d
ParseIntOr(x, d) == IF x = NaN \/ x = 0 THEN d ELSE x

\* s.split(",").map(t => t.trim()).filter(t => t): the tokens are given
\* already trimmed; a blank token is "".
SplitTables(tokens) == SelectSeq(tokens, LAMBDA t : t # "")

\* ------------------------------------------------------------ environment

EnvUnset ==
  [ DB_HOST |-> "", DB_PORT |-> 0, DB_USER |-> "", DB_PASSWORD |-> "",
    DB_NAME |-> "", DB_SCHEMA |-> "", DB_EXCLUDE_TABLES |-> <<>>,
    BACKUP_AUTO |-> "", BACKUP_SCHEDULE |-> "", BACKUP_RETENTION_DAYS |-> 0,
    BACKUP_STORAGE |-> "", BACKUP_LOCAL_PATH |-> "", BACKUP_FORMAT |-> "",
    AWS_ACCESS_KEY_ID |-> "", AWS_SECRET_ACCESS_KEY |-> "", AWS_REGION |-> "",
    AWS_S3_BUCKET |-> "", AWS_S3_PREFIX |-> "", AWS_S3_ENDPOINT |-> <<>>,
    AWS_S3_FORCE_PATH_STYLE |-> "" ]

EnvProd ==
  [ DB_HOST |-> "db.env", DB_PORT |-> 6432, DB_USER |-> "envuser",
    DB_PASSWORD |-> "envpw", DB_NAME |-> "envdb", DB_SCHEMA |-> "envschema",
    DB_EXCLUDE_TABLES |-> <<"logs", "", "sessions">>,
    BACKUP_AUTO |-> "true", BACKUP_SCHEDULE |-> "* * * * *",
    BACKUP_RETENTION_DAYS |-> 4, BACKUP_STORAGE |-> "both",
    BACKUP_LOCAL_PATH |-> "/data/env", BACKUP_FORMAT |-> "dump",
    AWS_ACCESS_KEY_ID |-> "ENVKEY", AWS_SECRET_ACCESS_KEY |-> "envsecret",
    AWS_REGION |-> "eu-west-1", AWS_S3_BUCKET |-> "envbucket",
    AWS_S3_PREFIX |-> "env/", AWS_S3_ENDPOINT |-> <<"s", "3", ".", "e", "u">>,
    AWS_S3_FORCE_PATH_STYLE |-> "" ]

\* The environments the process may be started in.
Envs ==
  { EnvUnset, EnvProd,
    [EnvProd EXCEPT !.BACKUP_STORAGE = "remote"],
    [EnvProd EXCEPT !.BACKUP_STORAGE = "remote", !.AWS_SECRET_ACCESS_KEY = ""],
    [EnvProd EXCEPT !.AWS_ACCESS_KEY_ID = "", !.AWS_S3_BUCKET = ""],
    [EnvProd EXCEPT !.BACKUP_STORAGE = "local", !.BACKUP_AUTO = ""] }


\* ----------------------------------------------------------------- inputs

\* Request bodies of POST /api/config/manual/database.
DbInputs ==
  { [host |-> "db.man", port |-> 7432, user |-> "manuser", password |-> "manpw",
     database |-> "mandb", schema |-> "manschema",
     excludeTables |-> <<"audit", "">>],
    [host |-> "localhost", port |-> NaN, user |-> "dev", password |-> "",
     database |-> "devdb", schema |-> "", excludeTables |-> <<>>],
    [host |-> "", port |-> 7432, user |-> "manuser", password |-> "manpw",
     database |-> "mandb", schema |-> "", excludeTables |-> <<>>] }

\* Request bodies of POST /api/config/manual/backup.
BackupInputs ==
  { [auto |-> FALSE, schedule |-> "", retentionDays |-> NaN, storage |-> "",
     localPath |-> "", format |-> ""],
    [auto |-> TRUE, schedule |-> "*/5 * * * *", retentionDays |-> 1,
     storage |-> "remote", localPath |-> "/data/man", format |-> "dump"],
    [auto |-> FALSE, schedule |-> "0 3 * * *", retentionDays |-> 1,
     storage |-> "both", localPath |-> "/data/man", format |-> "sql"] }

MinioEndpoint == <<"h", "t", "t", "p", ":", "/", "/", "M", "i", "n", "I", "O">>
AwsEndpoint == <<"h", "t", "t", "p", "s", ":", "/", "/", "s", "3", ".", "a", "w", "s">>

\* Request bodies of POST /api/config/manual/s3.
\* prefixGiven and flagGiven say whether the body holds the field at all.
S3Inputs ==
  { [accessKeyId |-> "MANKEY", secretAccessKey |-> "mansecret",
     region |-> "ap-south-1", bucket |-> "manbucket", prefix |-> "man",
     prefixGiven |-> TRUE, endpoint |-> MinioEndpoint,
     s3ForcePathStyle |-> FALSE, flagGiven |-> FALSE],
    [accessKeyId |-> "MANKEY", secretAccessKey |-> "", region |-> "",
     bucket |-> "manbucket", prefix |-> "", prefixGiven |-> TRUE,
     endpoint |-> AwsEndpoint, s3ForcePathStyle |-> TRUE, flagGiven |-> TRUE],
    [accessKeyId |-> "MANKEY", secretAccessKey |-> "mansecret", region |-> "",
     bucket |-> "", prefix |-> "", prefixGiven |-> FALSE, endpoint |-> <<>>,
     s3ForcePathStyle |-> FALSE, flagGiven |-> FALSE],
    [accessKeyId |-> "", secretAccessKey |-> "", region |-> "", bucket |-> "",
     prefix |-> "", prefixGiven |-> FALSE, endpoint |-> <<>>,
     s3ForcePathStyle |-> FALSE, flagGiven |-> TRUE],
    [accessKeyId |-> "MANKEY", secretAccessKey |-> "mansecret", region |-> "",
     bucket |-> "manbucket", prefix |-> "", prefixGiven |-> FALSE,
     endpoint |-> MinioEndpoint, s3ForcePathStyle |-> FALSE, flagGiven |-> TRUE] }

\* Request bodies of POST /api/storage/config.
StorageBodies ==
  { b \in S3Inputs : b.prefixGiven /\ Truthy(b.bucket) }

\* ------------------------------------------------- config.js: the readers

ConfigurationMissing == [error |-> "ConfigurationMissing"]

\* getDatabaseConfig() evaluated on a given mode, manual store and environment.
DatabaseConfigFrom(mode, manual, e) ==
  IF mode = "manual"
    THEN IF manual.database = NULL THEN ConfigurationMissing ELSE manual.database
    ELSE [ host |-> IF Truthy(e.DB_HOST) THEN e.DB_HOST ELSE "localhost",
           port |-> IF e.DB_PORT = 0 THEN 5432 ELSE e.DB_PORT,
           user |-> IF Truthy(e.DB_USER) THEN e.DB_USER ELSE "postgres",
           password |-> e.DB_PASSWORD,
           database |-> IF Truthy(e.DB_NAME) THEN e.DB_NAME ELSE "postgres",
           schema |-> e.DB_SCHEMA,
           excludeTables |-> SplitTables(e.DB_EXCLUDE_TABLES) ]

getDatabaseConfig == DatabaseConfigFrom(configMode, manualConfig, env)

BackupDefaults ==
  [ auto |-> FALSE, schedule |-> "0 2 * * *", retentionDays |-> 7,
    storage |-> "local", localPath |-> "./backups", format |-> "sql" ]

\* The mutant of BackupConfigFrom: manual mode with nothing set falls back
\* to the environment instead of the fixed defaults.
BackupConfigFromEnvFallback(mode, manual, e) ==
  IF mode = "manual" /\ manual.backup # NULL
    THEN manual.backup
    ELSE [ auto |-> e.BACKUP_AUTO = "true",
           schedule |-> IF Truthy(e.BACKUP_SCHEDULE) THEN e.BACKUP_SCHEDULE
                                                     ELSE "0 2 * * *",
           retentionDays |-> IF e.BACKUP_RETENTION_DAYS = 0 THEN 7
                                                   ELSE e.BACKUP_RETENTION_DAYS,
           storage |-> IF Truthy(e.BACKUP_STORAGE) THEN e.BACKUP_STORAGE ELSE "local",
           localPath |-> IF Truthy(e.BACKUP_LOCAL_PATH) THEN e.BACKUP_LOCAL_PATH
                                                        ELSE "./backups",
           format |-> IF Truthy(e.BACKUP_FORMAT) THEN e.BACKUP_FORMAT ELSE "sql" ]

\* getBackupConfig() evaluated on a given mode, manual store and environment.
BackupConfigFrom(mode, manual, e) ==
  IF mode = "manual"
    THEN IF manual.backup = NULL THEN BackupDefaults ELSE manual.backup
    ELSE [ auto |-> e.BACKUP_AUTO = "true",
           schedule |-> IF Truthy(e.BACKUP_SCHEDULE) THEN e.BACKUP_SCHEDULE
                                                     ELSE "0 2 * * *",
           retentionDays |-> IF e.BACKUP_RETENTION_DAYS = 0 THEN 7
                                                   ELSE e.BACKUP_RETENTION_DAYS,
           storage |-> IF Truthy(e.BACKUP_STORAGE) THEN e.BACKUP_STORAGE ELSE "local",
           localPath |-> IF Truthy(e.BACKUP_LOCAL_PATH) THEN e.BACKUP_LOCAL_PATH
                                                        ELSE "./backups",
           format |-> IF Truthy(e.BACKUP_FORMAT) THEN e.BACKUP_FORMAT ELSE "sql" ]

getBackupConfig == BackupConfigFrom(configMode, manualConfig, env)

UpperToLower ==
  [ c \in {"A", "B", "C", "D", "E", "F", "G", "H", "I", "J", "K", "L", "M", "N",
           "O", "P", "Q", "R", "S", "T", "U", "V", "W", "X", "Y", "Z"} |->
    CASE c = "A" -> "a" [] c = "B" -> "b" [] c = "C" -> "c" [] c = "D" -> "d"
      [] c = "E" -> "e" [] c = "F" -> "f" [] c = "G" -> "g" [] c = "H" -> "h"
      [] c = "I" -> "i" [] c = "J" -> "j" [] c = "K" -> "k" [] c = "L" -> "l"
      [] c = "M" -> "m" [] c = "N" -> "n" [] c = "O" -> "o" [] c = "P" -> "p"
      [] c = "Q" -> "q" [] c = "R" -> "r" [] c = "S" -> "s" [] c = "T" -> "t"
      [] c = "U" -> "u" [] c = "V" -> "v" [] c = "W" -> "w" [] c = "X" -> "x"
      [] c = "Y" -> "y" [] c = "Z" -> "z" ]

toLowerCase(s) ==
  [ i \in 1..Len(s) |-> IF s[i] \in DOMAIN UpperToLower THEN UpperToLower[s[i]]
                                                        ELSE s[i] ]

\* String.prototype.includes
includes(s, t) ==
  \E i \in 1..(Len(s) - Len(t) + 1) : SubSeq(s, i, i + Len(t) - 1) = t

forcePathStyleServices ==
  { <<"s", "u", "p", "a", "b", "a", "s", "e", ".", "c", "o">>,
    <<"m", "i", "n", "i", "o">>,
    <<"l", "o", "c", "a", "l", "h", "o", "s", "t">>,
    <<"1", "2", "7", ".", "0", ".", "0", ".", "1">>,
    <<"d", "i", "g", "i", "t", "a", "l", "o", "c", "e", "a", "n", "s", "p", "a",
      "c", "e", "s", ".", "c", "o", "m">> }

shouldForcePathStyle(endpoint) ==
  IF endpoint = <<>>
    THEN FALSE
    ELSE LET lowerEndpoint == toLowerCase(endpoint)
         IN  \E service \in forcePathStyleServices :
               includes(lowerEndpoint, service)

\* The last step of getS3Config: auto-detect the flag when it is not set.
AutoDetect(config) ==
  IF config.endpoint # <<>> /\ ~config.s3ForcePathStyle
    THEN [config EXCEPT !.s3ForcePathStyle = shouldForcePathStyle(config.endpoint)]
    ELSE config

S3Defaults ==
  [ accessKeyId |-> "", secretAccessKey |-> "", region |-> "us-east-1",
    bucket |-> "", prefix |-> "", endpoint |-> <<>>, s3ForcePathStyle |-> FALSE ]

\* getS3Config() evaluated on a given mode, manual store and environment.
\* In manual mode the code writes the detected flag into manualConfig.s3
\* itself; setManualS3Config stored the same value, so the write changes
\* nothing (S3ReadIsPure).
S3ConfigFrom(mode, manual, e) ==
  IF mode = "manual"
    THEN IF manual.s3 = NULL THEN S3Defaults ELSE AutoDetect(manual.s3)
    ELSE AutoDetect(
           [ accessKeyId |-> e.AWS_ACCESS_KEY_ID,
             secretAccessKey |-> e.AWS_SECRET_ACCESS_KEY,
             region |-> IF Truthy(e.AWS_REGION) THEN e.AWS_REGION ELSE "us-east-1",
             bucket |-> e.AWS_S3_BUCKET,
             prefix |-> e.AWS_S3_PREFIX,
             endpoint |-> e.AWS_S3_ENDPOINT,
             s3ForcePathStyle |-> e.AWS_S3_FORCE_PATH_STYLE = "true" ])

getS3Config == S3ConfigFrom(configMode, manualConfig, env)

\* s3.js: isS3Configured()
isS3Configured ==
  LET config == getS3Config
  IN  /\ Truthy(config.accessKeyId)
      /\ Truthy(config.secretAccessKey)
      /\ Truthy(config.bucket)


\* ------------------------------------------------- config.js: the writers

\* The variables no configuration-store call touches.
nonCfgVars == <<archVars, procs, schedVars, resp, lastList, prev, tempFiles>>

\* Every call flips lastCall.tick, so that two equal calls in a row are two steps.
Called(op, result) ==
  lastCall' = [op |-> op, result |-> result, tick |-> 1 - lastCall.tick]

SetterOps ==
  { "setManualDatabaseConfig", "setManualBackupConfig", "setManualS3Config",
    "resetManualConfig" }

\* The mutant of setConfigMode: a switch into manual mode clears the store.
setConfigModeClearing(mode) ==
  /\ mode \in {"env", "manual"}
  /\ configMode' = mode
  /\ manualConfig' = IF mode = "manual" /\ configMode = "env"
                       THEN [database |-> NULL, backup |-> NULL, s3 |-> NULL]
                       ELSE manualConfig
  /\ Called("setConfigMode", "ok")
  /\ hist' = IF mode = "manual" /\ configMode = "env"
               THEN [hist EXCEPT !.switched = TRUE, !.dbSinceSwitch = FALSE,
                                 !.backupSinceSwitch = FALSE]
               ELSE hist
  /\ UNCHANGED <<env, nonCfgVars>>

setConfigMode(mode) ==
  IF mode # "env" /\ mode # "manual"
    THEN /\ Called("setConfigMode", "InvalidMode")
         /\ UNCHANGED <<cfgVars, hist, nonCfgVars>>
    ELSE /\ configMode' = mode
         /\ Called("setConfigMode", "ok")
         /\ hist' = IF mode = "manual" /\ configMode = "env"
                      THEN [hist EXCEPT !.switched = TRUE, !.dbSinceSwitch = FALSE,
                                        !.backupSinceSwitch = FALSE]
                      ELSE hist
         /\ UNCHANGED <<manualConfig, env, nonCfgVars>>

\* What setManualDatabaseConfig stores for a request body.
StoredDatabase(config) ==
  [ host |-> config.host,
    port |-> ParseIntOr(config.port, 5432),
    user |-> config.user,
    password |-> config.password,
    database |-> config.database,
    schema |-> config.schema,
    excludeTables |-> SplitTables(config.excludeTables) ]

setManualDatabaseConfig(config) ==
  IF configMode # "manual"
    THEN /\ Called("setManualDatabaseConfig", "InvalidModeOperation")
         /\ UNCHANGED <<cfgVars, hist, nonCfgVars>>
    ELSE IF ~Truthy(config.host) \/ ~Truthy(config.user) \/ ~Truthy(config.database)
      THEN /\ Called("setManualDatabaseConfig", "ValidationError")
           /\ UNCHANGED <<cfgVars, hist, nonCfgVars>>
      ELSE /\ manualConfig' = [manualConfig EXCEPT !.database = StoredDatabase(config)]
           /\ Called("setManualDatabaseConfig", "ok")
           /\ hist' = [hist EXCEPT !.dbSet = TRUE, !.afterReset = FALSE,
                                   !.dbSinceSwitch = TRUE]
           /\ UNCHANGED <<configMode, env, nonCfgVars>>

\* What setManualBackupConfig stores for a request body.
StoredBackup(config) ==
  [ auto |-> config.auto,
    schedule |-> IF Truthy(config.schedule) THEN config.schedule ELSE "0 2 * * *",
    retentionDays |-> ParseIntOr(config.retentionDays, 7),
    storage |-> IF Truthy(config.storage) THEN config.storage ELSE "local",
    localPath |-> IF Truthy(config.localPath) THEN config.localPath ELSE "./backups",
    format |-> IF Truthy(config.format) THEN config.format ELSE "sql" ]

\* The mutant of setManualBackupConfig: the mode guard is missing.
setManualBackupConfigNoGuard(config) ==
  /\ manualConfig' = [manualConfig EXCEPT !.backup = StoredBackup(config)]
  /\ Called("setManualBackupConfig", "ok")
  /\ hist' = [hist EXCEPT !.backupSet = TRUE, !.backupSinceSwitch = TRUE]
  /\ UNCHANGED <<configMode, env, nonCfgVars>>

setManualBackupConfig(config) ==
  IF configMode # "manual"
    THEN /\ Called("setManualBackupConfig", "InvalidModeOperation")
         /\ UNCHANGED <<cfgVars, hist, nonCfgVars>>
    ELSE /\ manualConfig' = [manualConfig EXCEPT !.backup = StoredBackup(config)]
         /\ Called("setManualBackupConfig", "ok")
         /\ hist' = [hist EXCEPT !.backupSet = TRUE, !.backupSinceSwitch = TRUE]
         /\ UNCHANGED <<configMode, env, nonCfgVars>>

\* What setManualS3Config stores for a request body.
StoredS3(config) ==
  [ accessKeyId |-> config.accessKeyId,
    secretAccessKey |-> config.secretAccessKey,
    region |-> IF Truthy(config.region) THEN config.region ELSE "us-east-1",
    bucket |-> config.bucket,
    prefix |-> config.prefix,
    endpoint |-> config.endpoint,
    s3ForcePathStyle |->
      IF config.endpoint # <<>> /\ ~config.s3ForcePathStyle
        THEN shouldForcePathStyle(config.endpoint)
        ELSE config.s3ForcePathStyle ]

setManualS3Config(config) ==
  IF configMode # "manual"
    THEN /\ Called("setManualS3Config", "InvalidModeOperation")
         /\ UNCHANGED <<cfgVars, hist, nonCfgVars>>
    ELSE IF /\ Truthy(config.accessKeyId) \/ Truthy(config.bucket)
            /\ ~Truthy(config.accessKeyId) \/ ~Truthy(config.bucket)
      THEN /\ Called("setManualS3Config", "ValidationError")
           /\ UNCHANGED <<cfgVars, hist, nonCfgVars>>
      ELSE /\ manualConfig' = [manualConfig EXCEPT !.s3 = StoredS3(config)]
           /\ Called("setManualS3Config", "ok")
           /\ hist' = [hist EXCEPT !.s3Set = TRUE]
           /\ UNCHANGED <<configMode, env, nonCfgVars>>

\* The mutant of resetManualConfig: the database entry survives the reset.
resetManualConfigKeepingDatabase ==
  IF configMode # "manual"
    THEN /\ Called("resetManualConfig", "InvalidModeOperation")
         /\ UNCHANGED <<cfgVars, hist, nonCfgVars>>
    ELSE /\ manualConfig' = [manualConfig EXCEPT !.backup = NULL, !.s3 = NULL]
         /\ Called("resetManualConfig", "ok")
         /\ hist' = [hist EXCEPT !.dbSet = FALSE, !.backupSet = FALSE,
                                 !.s3Set = FALSE, !.afterReset = TRUE,
                                 !.resetCleared = manualConfig.database # NULL]
         /\ UNCHANGED <<configMode, env, nonCfgVars>>

resetManualConfig ==
  IF configMode # "manual"
    THEN /\ Called("resetManualConfig", "InvalidModeOperation")
         /\ UNCHANGED <<cfgVars, hist, nonCfgVars>>
    ELSE /\ manualConfig' = [database |-> NULL, backup |-> NULL, s3 |-> NULL]
         /\ Called("resetManualConfig", "ok")
         /\ hist' = [hist EXCEPT !.dbSet = FALSE, !.backupSet = FALSE,
                                 !.s3Set = FALSE, !.afterReset = TRUE,
                                 !.resetCleared = manualConfig.database # NULL]
         /\ UNCHANGED <<configMode, env, nonCfgVars>>

\* server.js: POST /api/storage/config writes the AWS_* variables of process.env.
updateStorageConfig(body) ==
  /\ env' =
       [env EXCEPT
          !.AWS_ACCESS_KEY_ID = IF Truthy(body.accessKeyId) THEN body.accessKeyId ELSE @,
          !.AWS_SECRET_ACCESS_KEY =
             IF Truthy(body.secretAccessKey) THEN body.secretAccessKey ELSE @,
          !.AWS_REGION = IF Truthy(body.region) THEN body.region ELSE @,
          !.AWS_S3_BUCKET = IF Truthy(body.bucket) THEN body.bucket ELSE @,
          !.AWS_S3_PREFIX = IF body.prefixGiven THEN body.prefix ELSE @,
          !.AWS_S3_ENDPOINT = IF body.endpoint # <<>> THEN body.endpoint ELSE @,
          !.AWS_S3_FORCE_PATH_STYLE =
             IF body.flagGiven
               THEN (IF body.s3ForcePathStyle THEN "true" ELSE "false")
               ELSE @]
  /\ Called("updateStorageConfig", "ok")
  /\ UNCHANGED <<configMode, manualConfig, hist, nonCfgVars>>

\* ------------------------------------------------------------ the bounds

MaxFiles == 2   \* filenames generated in a run of the model
MaxDay == 8     \* the last day of the model's clock
MaxSize == 1    \* the largest dump, in bytes
MaxProcs == 2   \* create requests and scheduled jobs in flight at once

Files == 1..MaxFiles
ProcIds == 1..MaxProcs

\* ------------------------------------------------------- the config store

IdleProc ==
  [ kind |-> "none", pc |-> "idle", file |-> 0, storage |-> "", size |-> 0,
    temp |-> FALSE ]

RespInit ==
  [ op |-> "init", ok |-> TRUE, file |-> 0, location |-> "", count |-> 0,
    clean |-> TRUE, proc |-> 0, faults |-> {} ]

\* No listing has been returned by the last event.
NoList ==
  [ backups |-> <<>>,
    stats |-> [total |-> 0, local |-> 0, remote |-> 0, totalSize |-> 0] ]

\* The module state of backup.js, s3.js and scheduler.js after import, with
\* an empty backup directory and an empty bucket.
\* database.js, s3.js, config.js after import: no pool, no client, no temporary
\* configuration.
SeenInit == [op |-> "init", ok |-> TRUE, used |-> NULL, config |-> NULL]

ConnInit ==
  /\ tempConfig = NULL
  /\ pool = NULL
  /\ s3Client = NULL
  /\ lastConfig = NULL
  /\ seen = SeenInit

EngineInit ==
  /\ ConnInit
  /\ clock = 0
  /\ nextId = 1
  /\ localFiles = [f \in Files |-> NULL]
  /\ remoteFiles = [f \in Files |-> NULL]
  /\ procs = [p \in ProcIds |-> IdleProc]
  /\ schedulerTask = FALSE
  /\ isRunning = FALSE
  /\ currentSchedule = ""
  /\ timers = 0
  /\ resp = RespInit
  /\ lastList = NoList
  /\ prev = [op |-> "other", file |-> 0, count |-> 0, clean |-> TRUE]
  /\ tempFiles = [f \in Files |-> 0]

HistInit ==
  [ dbSet |-> FALSE, backupSet |-> FALSE, s3Set |-> FALSE, afterReset |-> FALSE,
    resetCleared |-> FALSE, switched |-> FALSE, dbSinceSwitch |-> FALSE,
    backupSinceSwitch |-> FALSE ]

\* The module state of config.js after import: CONFIG_MODE picks the mode.
ConfigInit ==
  /\ env \in {EnvUnset, EnvProd}
  /\ configMode \in {"env", "manual"}
  /\ manualConfig = [database |-> NULL, backup |-> NULL, s3 |-> NULL]
  /\ lastCall = [op |-> "init", result |-> "ok", tick |-> 0]
  /\ hist = HistInit
  /\ EngineInit

\* The calls of the configuration store, which touches no connection.
ConfigCalls ==
  \/ \E mode \in {"env", "manual", "bogus"} : setConfigMode(mode)
  \/ \E config \in DbInputs : setManualDatabaseConfig(config)
  \/ \E config \in BackupInputs : setManualBackupConfig(config)
  \/ \E config \in S3Inputs : setManualS3Config(config)
  \/ resetManualConfig
  \/ \E body \in StorageBodies : updateStorageConfig(body)

ConfigNext == ConfigCalls /\ UNCHANGED connVars

vars == <<cfgVars, lastCall, hist, nonCfgVars, connVars>>

SpecConfig == ConfigInit /\ [][ConfigNext]_vars

\* ------------------------------------------- backup.js, s3.js: the archives

\* What an event leaves of itself when the next one happens: a backup was
\* created, or a retention sweep was made.
Trace(r) ==
  IF r.op = "created" \/ r.op = "retention"
    THEN [op |-> r.op, file |-> r.file, count |-> r.count, clean |-> r.clean]
    ELSE [op |-> "other", file |-> 0, count |-> 0, clean |-> TRUE]

\* Every event of the engine records its outcome in resp, and the event
\* before it in prev.
\* faults names the failures of the file system and of the storage service
\* that the event met.
Report(op, ok, file, location, count, clean, proc, faults) ==
  /\ resp' = [ op |-> op, ok |-> ok, file |-> file, location |-> location,
               count |-> count, clean |-> clean, proc |-> proc,
               faults |-> faults ]
  /\ prev' = Trace(resp)

Record(op, ok, file, location, count, clean, proc) ==
  Report(op, ok, file, location, count, clean, proc, {})

Event(op, ok, file, location, count, clean, proc) ==
  /\ Record(op, ok, file, location, count, clean, proc)
  /\ lastList' = NoList

\* The filenames in ascending order (readdir and listObjectsV2 order).
FileSeq == [i \in 1..MaxFiles |-> i]

\* backup.js: listLocalBackups().  fail: ensureBackupDir, readdir or stat threw.
listLocalBackups(fail) ==
  IF fail
    THEN <<>>
    ELSE LET present == SelectSeq(FileSeq, LAMBDA f : localFiles[f] # NULL)
         IN  [ i \in 1..Len(present) |->
                 [ filename |-> present[i],
                   size |-> localFiles[present[i]].size,
                   date |-> localFiles[present[i]].date,
                   location |-> "local" ] ]

\* s3.js: listS3Backups().  fail: listObjectsV2 threw.
listS3Backups(fail) ==
  IF ~isS3Configured \/ fail
    THEN <<>>
    ELSE LET present == SelectSeq(FileSeq, LAMBDA f : remoteFiles[f] # NULL)
         IN  [ i \in 1..Len(present) |->
                 [ filename |-> present[i],
                   size |-> remoteFiles[present[i]].size,
                   date |-> remoteFiles[present[i]].date,
                   location |-> "remote" ] ]

\* The first loop of listAllBackups: backupMap.set(filename, {...backup, location: "local"}).
RECURSIVE MergeLocal(_, _)
MergeLocal(acc, L) ==
  IF L = <<>>
    THEN acc
    ELSE LET b == [Head(L) EXCEPT !.location = "local"]
         IN  IF \E i \in DOMAIN acc : acc[i].filename = b.filename
               THEN MergeLocal([i \in DOMAIN acc |->
                                  IF acc[i].filename = b.filename THEN b ELSE acc[i]],
                               Tail(L))
               ELSE MergeLocal(Append(acc, b), Tail(L))

\* The mutant of MergeRemote: a remote entry replaces the local one it meets.
RECURSIVE MergeRemoteOverwriting(_, _)
MergeRemoteOverwriting(acc, R) ==
  IF R = <<>>
    THEN acc
    ELSE LET b == [Head(R) EXCEPT !.location = "remote"]
         IN  IF \E i \in DOMAIN acc : acc[i].filename = b.filename
               THEN MergeRemoteOverwriting(
                      [i \in DOMAIN acc |->
                         IF acc[i].filename = b.filename THEN b ELSE acc[i]],
                      Tail(R))
               ELSE MergeRemoteOverwriting(Append(acc, b), Tail(R))

\* The second loop of listAllBackups: an entry already in the map becomes
\* "both" (keeping the local entry's fields), a new one is added as "remote".
RECURSIVE MergeRemote(_, _)
MergeRemote(acc, R) ==
  IF R = <<>>
    THEN acc
    ELSE LET b == Head(R)
         IN  IF \E i \in DOMAIN acc : acc[i].filename = b.filename
               THEN MergeRemote(
                      [i \in DOMAIN acc |->
                         IF acc[i].filename = b.filename
                           THEN [acc[i] EXCEPT !.location = "both"]
                           ELSE acc[i]],
                      Tail(R))
               ELSE MergeRemote(Append(acc, [b EXCEPT !.location = "remote"]), Tail(R))

\* Array.prototype.sort((a, b) => new Date(b.date) - new Date(a.date)): stable,
\* newest first.
RECURSIVE InsertByDate(_, _)
InsertByDate(sorted, b) ==
  IF sorted = <<>>
    THEN <<b>>
    ELSE IF Head(sorted).date >= b.date
           THEN <<Head(sorted)>> \o InsertByDate(Tail(sorted), b)
           ELSE <<b>> \o sorted

RECURSIVE SortByDateDesc(_)
SortByDateDesc(s) ==
  IF s = <<>> THEN <<>>
  ELSE InsertByDate(SortByDateDesc(SubSeq(s, 1, Len(s) - 1)), s[Len(s)])

\* The mutant of listAllBackups: a failed listing fails the merge as a whole.
listAllBackupsOrNothing(localFail, remoteFail) ==
  LET storage == getBackupConfig.storage
      localBackups == IF storage = "local" \/ storage = "both"
                        THEN listLocalBackups(localFail) ELSE <<>>
      remoteBackups == IF (storage = "remote" \/ storage = "both") /\ isS3Configured
                         THEN listS3Backups(remoteFail) ELSE <<>>
  IN  IF localFail \/ remoteFail
        THEN <<>>
        ELSE SortByDateDesc(MergeRemote(MergeLocal(<<>>, localBackups), remoteBackups))

\* s3.js: listAllBackups().  The local listing is fetched only in storage
\* mode local or both, the remote one only in mode remote or both with the
\* remote archive configured.
listAllBackups(localFail, remoteFail) ==
  LET storage == getBackupConfig.storage
      localBackups == IF storage = "local" \/ storage = "both"
                        THEN listLocalBackups(localFail) ELSE <<>>
      remoteBackups == IF (storage = "remote" \/ storage = "both") /\ isS3Configured
                         THEN listS3Backups(remoteFail) ELSE <<>>
  IN  SortByDateDesc(MergeRemote(MergeLocal(<<>>, localBackups), remoteBackups))

RECURSIVE SumSizes(_)
SumSizes(s) == IF s = <<>> THEN 0 ELSE Head(s).size + SumSizes(Tail(s))

\* The mutant of getBackupStats: an artifact held by both archives counts
\* for neither side.
getBackupStatsExclusive(localFail, remoteFail) ==
  LET allBackups == listAllBackups(localFail, remoteFail)
      at(loc) == Cardinality({i \in DOMAIN allBackups : allBackups[i].location = loc})
  IN  [ total |-> Len(allBackups),
        local |-> at("local"),
        remote |-> at("remote"),
        totalSize |-> SumSizes(allBackups) ]

\* s3.js: getBackupStats(), which lists again.
getBackupStats(localFail, remoteFail) ==
  LET allBackups == listAllBackups(localFail, remoteFail)
      at(loc) == Cardinality({i \in DOMAIN allBackups : allBackups[i].location = loc})
  IN  [ total |-> Len(allBackups),
        local |-> at("local") + at("both"),
        remote |-> at("remote") + at("both"),
        totalSize |-> SumSizes(allBackups) ]

\* The ways the two listings of one call can fail: <<local, remote>>.
ListFailures == {<<FALSE, FALSE>>, <<TRUE, FALSE>>, <<FALSE, TRUE>>}

NoFailure == <<FALSE, FALSE>>

\* The ways GET /api/backups can fail: in its listing or in the listing of
\* its statistics.
GetFailures ==
  {<<a, NoFailure>> : a \in ListFailures} \cup {<<NoFailure, b>> : b \in ListFailures}

\* The listings of one listAllBackups() call that were made and failed, named
\* l for the local and r for the remote one.
ListingFaults(fails, l, r) ==
  LET storage == getBackupConfig.storage
  IN  {x \in {l} : fails[1] /\ (storage = "local" \/ storage = "both")}
        \cup {x \in {r} : /\ fails[2]
                           /\ (storage = "remote" \/ storage = "both")
                           /\ isS3Configured}

\* server.js: GET /api/backups: listAllBackups(), then getBackupStats(),
\* which lists again.
getBackups(fails, statFails) ==
  /\ lastList' = [ backups |-> listAllBackups(fails[1], fails[2]),
                   stats |-> getBackupStats(statFails[1], statFails[2]) ]
  /\ Report("listAll", TRUE, 0, "", 0,
            fails = <<FALSE, FALSE>> /\ statFails = <<FALSE, FALSE>>, 0,
            ListingFaults(fails, "local", "remote")
              \cup ListingFaults(statFails, "statsLocal", "statsRemote"))
  /\ UNCHANGED <<cfgVars, connVars, lastCall, hist, tempFiles, archVars, procs, schedVars>>

\* ------------------------------------- backup.js, server.js: create a backup

\* A create request or a scheduled job takes the lowest free slot.
FreeProc(p) ==
  /\ procs[p].pc = "idle"
  /\ \A q \in ProcIds : q < p => procs[q].pc # "idle"

\* The mutant of WantsUpload: the upload is decided by the storage mode alone.
WantsUploadUnconfigured(storage) ==
  storage = "remote" \/ storage = "both"

\* server.js POST /api/backups and scheduler.js executeBackupJob: the upload
\* is made iff the snapshot's storage is remote or both and S3 is configured.
WantsUpload(storage) ==
  (storage = "remote" \/ storage = "both") /\ isS3Configured

\* server.js POST /api/backups: the location of the 201 response.
Location(storage) ==
  IF storage = "local" THEN "local"
  ELSE IF storage = "remote" /\ isS3Configured THEN "remote"
  ELSE IF storage = "both" /\ isS3Configured THEN "both"
  ELSE "local"

\* backup.js: createBackup() up to the await of pg_dump.  getDatabaseConfig()
\* or ensureBackupDir() may throw (dirOk = FALSE), before any file exists;
\* otherwise pg_dump starts writing the file named by generateBackupFilename.
BeginCreate(p, kind, dirOk) ==
  /\ FreeProc(p)
  /\ IF getDatabaseConfig = ConfigurationMissing \/ ~dirOk
       THEN /\ Event("createFailed", FALSE, 0, "", 0, TRUE, p)
            /\ UNCHANGED <<nextId, localFiles, procs>>
       ELSE /\ nextId <= MaxFiles
            /\ localFiles' = [localFiles EXCEPT
                 ![nextId] = [size |-> 0, date |-> clock, partial |-> TRUE]]
            /\ nextId' = nextId + 1
            /\ procs' = [procs EXCEPT
                 ![p] = [kind |-> kind, pc |-> "creating", file |-> nextId,
                         storage |-> getBackupConfig.storage, size |-> 0,
                         temp |-> FALSE]]
            /\ Event("start", TRUE, nextId, "", 0, TRUE, p)
  /\ UNCHANGED <<clock, remoteFiles>>

\* The artifact of process p is created (and uploaded, where wanted): the
\* request answers 201 with its location, the job goes on to the retention
\* sweep.
Finish(p) ==
  /\ procs' = [procs EXCEPT
       ![p] = IF procs[p].kind = "job"
                THEN [procs[p] EXCEPT !.pc = "retention"]
                ELSE IdleProc]
  /\ Event("created", TRUE, procs[p].file,
           IF procs[p].kind = "job" THEN "" ELSE Location(procs[p].storage),
           0, TRUE, p)

\* The mutant of Abort: a failed scheduled job still goes on to the sweep.
AbortThenSweep(p) ==
  /\ procs' = [procs EXCEPT
       ![p] = IF procs[p].kind = "job"
                THEN [procs[p] EXCEPT !.pc = "retention"]
                ELSE IdleProc]
  /\ Event("createFailed", FALSE, procs[p].file, "", 0, TRUE, p)

\* createBackup() or uploadToS3() threw: the request answers 500, the job
\* logs the error in its catch block and returns.
Abort(p) ==
  /\ procs' = [procs EXCEPT ![p] = IdleProc]
  /\ Event("createFailed", FALSE, procs[p].file, "", 0, TRUE, p)

\* The mutant of dumpDone: the catch block rethrows without unlinking the
\* file that pg_dump left.
dumpDoneKeepingFile(p, ok, size) ==
  /\ procs[p].pc = "creating"
  /\ LET f == procs[p].file
     IN  IF ok /\ localFiles[f] # NULL
           THEN /\ localFiles' = [localFiles EXCEPT
                     ![f] = [size |-> size, date |-> clock, partial |-> FALSE]]
                /\ IF WantsUpload(procs[p].storage)
                     THEN /\ procs' = [procs EXCEPT
                               ![p] = [procs[p] EXCEPT !.pc = "uploading", !.size = size]]
                          /\ Event("dump", TRUE, f, "", 0, TRUE, p)
                     ELSE Finish(p)
           ELSE /\ UNCHANGED localFiles
                /\ Abort(p)
  /\ UNCHANGED <<clock, nextId, remoteFiles>>

\* backup.js: createBackup() after pg_dump returned.  It threw (ok = FALSE),
\* or fs.stat throws because the file is gone: the file is unlinked and the
\* error rethrown.  Otherwise the caller uploads or is done.
dumpDone(p, ok, size) ==
  /\ procs[p].pc = "creating"
  /\ LET f == procs[p].file
     IN  IF ok /\ localFiles[f] # NULL
           THEN /\ localFiles' = [localFiles EXCEPT
                     ![f] = [size |-> size, date |-> clock, partial |-> FALSE]]
                /\ IF WantsUpload(procs[p].storage)
                     THEN /\ procs' = [procs EXCEPT
                               ![p] = [procs[p] EXCEPT !.pc = "uploading", !.size = size]]
                          /\ Event("dump", TRUE, f, "", 0, TRUE, p)
                     ELSE Finish(p)
           ELSE /\ localFiles' = [localFiles EXCEPT ![f] = NULL]
                /\ Abort(p)
  /\ UNCHANGED <<clock, nextId, remoteFiles>>

\* s3.js: uploadToS3() settled.
uploadDone(p, ok) ==
  /\ procs[p].pc = "uploading"
  /\ IF ok
       THEN /\ remoteFiles' = [remoteFiles EXCEPT
                 ![procs[p].file] = [size |-> procs[p].size, date |-> clock]]
            /\ Finish(p)
       ELSE /\ UNCHANGED remoteFiles
            /\ Abort(p)
  /\ UNCHANGED <<clock, nextId, localFiles>>

\* server.js: POST /api/backups.
postBackups(p, dirOk) ==
  /\ BeginCreate(p, "request", dirOk)
  /\ UNCHANGED <<cfgVars, connVars, lastCall, hist, tempFiles, schedVars>>

\* ------------------------------------------------- server.js: delete a backup

\* The mutant of deleteBackup: a failed local deletion ends the request.
deleteBackupStoppingAtFailure(f, localOk, remoteOk) ==
  LET storage == getBackupConfig.storage
      triesLocal == storage = "local" \/ storage = "both"
      deletedLocal == triesLocal /\ localFiles[f] # NULL /\ localOk
      triesRemote == /\ storage = "remote" \/ storage = "both"
                     /\ isS3Configured
                     /\ triesLocal => deletedLocal
      deletedRemote == triesRemote /\ remoteOk
  IN  /\ localFiles' = IF deletedLocal
                         THEN [localFiles EXCEPT ![f] = NULL] ELSE localFiles
      /\ remoteFiles' = IF deletedRemote
                          THEN [remoteFiles EXCEPT ![f] = NULL] ELSE remoteFiles
      /\ Report("delete", deletedLocal \/ deletedRemote, f,
                IF deletedLocal /\ deletedRemote THEN "both"
                ELSE IF deletedLocal THEN "local"
                ELSE IF deletedRemote THEN "remote" ELSE "",
                0, TRUE, 0,
                (IF triesLocal /\ ~localOk THEN {"local"} ELSE {})
                  \cup (IF storage # "local" /\ isS3Configured /\ ~remoteOk
                          THEN {"remote"} ELSE {}))
      /\ lastList' = NoList
      /\ UNCHANGED <<cfgVars, connVars, lastCall, hist, tempFiles, clock, nextId, procs, schedVars>>

\* server.js: DELETE /api/backups/:filename.  unlink fails on an absent file
\* (or when localOk = FALSE); deleteObject fails only when remoteOk = FALSE.
deleteBackup(f, localOk, remoteOk) ==
  LET storage == getBackupConfig.storage
      triesLocal == storage = "local" \/ storage = "both"
      triesRemote == (storage = "remote" \/ storage = "both") /\ isS3Configured
      deletedLocal == triesLocal /\ localFiles[f] # NULL /\ localOk
      deletedRemote == triesRemote /\ remoteOk
  IN  /\ localFiles' = IF deletedLocal
                         THEN [localFiles EXCEPT ![f] = NULL] ELSE localFiles
      /\ remoteFiles' = IF deletedRemote
                          THEN [remoteFiles EXCEPT ![f] = NULL] ELSE remoteFiles
      /\ Report("delete", deletedLocal \/ deletedRemote, f,
                IF deletedLocal /\ deletedRemote THEN "both"
                ELSE IF deletedLocal THEN "local"
                ELSE IF deletedRemote THEN "remote" ELSE "",
                0, TRUE, 0,
                (IF triesLocal /\ ~localOk THEN {"local"} ELSE {})
                  \cup (IF triesRemote /\ ~remoteOk THEN {"remote"} ELSE {}))
      /\ lastList' = NoList
      /\ UNCHANGED <<cfgVars, connVars, lastCall, hist, tempFiles, clock, nextId, procs, schedVars>>

\* ------------------------------------------------ backup.js: retention policy

\* The deletions that fail during one sweep, <<local, remote>>: at most one.
DeleteFailures ==
  {<<{}, {}>>} \cup {<<{f}, {}>> : f \in Files} \cup {<<{}, {f}>> : f \in Files}

\* new Date(backup.date) < retentionDate, with retentionDate = now minus
\* retentionDays.
Expired(date) == date < clock - getBackupConfig.retentionDays

\* The mutant of SweepFrom: an expired backup is counted but left in place.
RECURSIVE SweepCountingOnly(_, _, _, _, _, _, _)
SweepCountingOnly(list, L, R, count, failed, failL, failR) ==
  IF list = <<>>
    THEN [local |-> L, remote |-> R, count |-> count, failed |-> failed]
    ELSE SweepCountingOnly(Tail(list), L, R,
           IF Expired(Head(list).date) THEN count + 1 ELSE count,
           failed, failL, failR)

\* The mutant of SweepFrom: the first deletion that throws ends the loop.
RECURSIVE SweepStoppingAtFailure(_, _, _, _, _, _, _)
SweepStoppingAtFailure(list, L, R, count, failed, failL, failR) ==
  IF list = <<>> \/ failed # {}
    THEN [local |-> L, remote |-> R, count |-> count, failed |-> failed]
    ELSE LET b == Head(list)
             f == b.filename
             wantL == b.location = "local" \/ b.location = "both"
             wantR == b.location = "remote" \/ b.location = "both"
             okL == wantL => (L[f] # NULL /\ f \notin failL)
             okR == wantR => (isS3Configured /\ f \notin failR)
         IN  IF ~Expired(b.date)
               THEN SweepStoppingAtFailure(Tail(list), L, R, count, failed, failL, failR)
               ELSE SweepStoppingAtFailure(Tail(list),
                      IF wantL /\ okL THEN [L EXCEPT ![f] = NULL] ELSE L,
                      IF okL /\ wantR /\ okR THEN [R EXCEPT ![f] = NULL] ELSE R,
                      IF okL /\ okR THEN count + 1 ELSE count,
                      IF okL /\ okR THEN failed ELSE failed \cup {f},
                      failL, failR)

\* The mutant of SweepFrom: deletedCount counts the deletions, one for each
\* archive an expired backup is removed from.
RECURSIVE SweepCountingArchives(_, _, _, _, _, _, _)
SweepCountingArchives(list, L, R, count, failed, failL, failR) ==
  IF list = <<>>
    THEN [local |-> L, remote |-> R, count |-> count, failed |-> failed]
    ELSE LET b == Head(list)
             f == b.filename
             wantL == b.location = "local" \/ b.location = "both"
             wantR == b.location = "remote" \/ b.location = "both"
             okL == wantL => (L[f] # NULL /\ f \notin failL)
             okR == wantR => (isS3Configured /\ f \notin failR)
         IN  IF ~Expired(b.date)
               THEN SweepCountingArchives(Tail(list), L, R, count, failed, failL, failR)
               ELSE SweepCountingArchives(Tail(list),
                      IF wantL /\ okL THEN [L EXCEPT ![f] = NULL] ELSE L,
                      IF okL /\ wantR /\ okR THEN [R EXCEPT ![f] = NULL] ELSE R,
                      count + (IF wantL /\ okL THEN 1 ELSE 0)
                            + (IF okL /\ wantR /\ okR THEN 1 ELSE 0),
                      IF okL /\ okR THEN failed ELSE failed \cup {f},
                      failL, failR)

\* The loop of applyRetentionPolicy over the reconciled listing: L and R are
\* the archives so far, count is deletedCount, failed holds the filenames
\* whose deletion threw.  A local deletion that throws skips the remote one.
RECURSIVE SweepFrom(_, _, _, _, _, _, _)
SweepFrom(list, L, R, count, failed, failL, failR) ==
  IF list = <<>>
    THEN [local |-> L, remote |-> R, count |-> count, failed |-> failed]
    ELSE LET b == Head(list)
             f == b.filename
             wantL == b.location = "local" \/ b.location = "both"
             wantR == b.location = "remote" \/ b.location = "both"
             okL == wantL => (L[f] # NULL /\ f \notin failL)
             okR == wantR => (isS3Configured /\ f \notin failR)
         IN  IF ~Expired(b.date)
               THEN SweepFrom(Tail(list), L, R, count, failed, failL, failR)
               ELSE SweepFrom(Tail(list),
                      IF wantL /\ okL THEN [L EXCEPT ![f] = NULL] ELSE L,
                      IF okL /\ wantR /\ okR THEN [R EXCEPT ![f] = NULL] ELSE R,
                      IF okL /\ okR THEN count + 1 ELSE count,
                      IF okL /\ okR THEN failed ELSE failed \cup {f},
                      failL, failR)

\* backup.js: applyRetentionPolicy(), on the archives as they are.
SweepResult(fails, failL, failR) ==
  SweepFrom(listAllBackups(fails[1], fails[2]), localFiles, remoteFiles,
            0, {}, failL, failR)

Sweep(fails, failL, failR, p) ==
  LET r == SweepResult(fails, failL, failR)
  IN  /\ localFiles' = r.local
      /\ remoteFiles' = r.remote
      /\ Report("retention", TRUE,
                IF r.failed = {} THEN 0 ELSE CHOOSE f \in r.failed : TRUE,
                "", r.count, fails = <<FALSE, FALSE>> /\ r.failed = {}, p,
                ListingFaults(fails, "local", "remote"))
      /\ lastList' = NoList

\* backup.js: applyRetentionPolicy(), called on its own.
applyRetentionPolicy(fails, failL, failR) ==
  /\ Sweep(fails, failL, failR, 0)
  /\ UNCHANGED <<cfgVars, connVars, lastCall, hist, tempFiles, clock, nextId, procs, schedVars>>

\* ---------------------------------------------------------------- the clock

DayStep == 4   \* the days that pass at once

\* Time passes.
Tick ==
  /\ clock + DayStep <= MaxDay
  /\ clock' = clock + DayStep
  /\ Event("tick", TRUE, 0, "", 0, TRUE, 0)
  /\ UNCHANGED <<cfgVars, connVars, lastCall, hist, tempFiles, nextId, localFiles, remoteFiles,
                 procs, schedVars>>

\* The steps of a create request in flight.
requestStep(p) ==
  /\ procs[p].kind = "request"
  /\ \/ \E ok \in BOOLEAN, size \in 1..MaxSize : dumpDone(p, ok, size)
     \/ \E ok \in BOOLEAN : uploadDone(p, ok)
  /\ UNCHANGED <<cfgVars, connVars, lastCall, hist, tempFiles, schedVars>>

\* ------------------------------------------------- the lifecycle of backups

\* The configurations of a run: the environment file as deployed, or manual
\* mode with nothing set.
Deployments ==
  {<<"env", e>> : e \in Envs} \cup {<<"manual", EnvUnset>>}

\* The create requests in flight at once.
MaxRequests == 1

RequestSlots == 1..MaxRequests

Init ==
  /\ \E d \in Deployments : configMode = d[1] /\ env = d[2]
  /\ manualConfig = [database |-> NULL, backup |-> NULL, s3 |-> NULL]
  /\ lastCall = [op |-> "init", result |-> "ok", tick |-> 0]
  /\ hist = HistInit
  /\ EngineInit

Next ==
  \/ \E p \in RequestSlots, dirOk \in BOOLEAN : postBackups(p, dirOk)
  \/ \E p \in RequestSlots : requestStep(p)
  \/ \E g \in GetFailures : getBackups(g[1], g[2])
  \/ \E f \in Files, localOk \in BOOLEAN, remoteOk \in BOOLEAN :
       deleteBackup(f, localOk, remoteOk)
  \/ \E fails \in ListFailures, d \in DeleteFailures :
       applyRetentionPolicy(fails, d[1], d[2])
  \/ Tick

Spec == Init /\ [][Next]_vars

\* ------------------------------------------------------------- scheduler.js

\* node-cron's cron.validate, on the expressions of the model.
ValidCron == {"* * * * *", "0 2 * * *", "0 3 * * *", "*/5 * * * *"}

validate(schedule) == schedule \in ValidCron

\* What a call of startScheduler is given: nothing, a schedule, a text that
\* is no cron expression.
ScheduleInputs == {"", "*/5 * * * *", "every day"}

\* scheduler.js: stopScheduler(), as the scheduler state it leaves:
\* the task, if any, is stopped and forgotten.
Stopped ==
  [ schedulerTask |-> FALSE, isRunning |-> FALSE, currentSchedule |-> "",
    timers |-> IF schedulerTask THEN timers - 1 ELSE timers ]

Unstopped ==
  [ schedulerTask |-> schedulerTask, isRunning |-> isRunning,
    currentSchedule |-> currentSchedule, timers |-> timers ]

\* The mutant of Started: the new cron task is scheduled without stopping the
\* one that runs.
StartedWithoutStop(schedule) ==
  LET scheduleToUse == IF Truthy(schedule) THEN schedule
                                           ELSE getBackupConfig.schedule
  IN  IF ~validate(scheduleToUse)
        THEN [state |-> Unstopped, ok |-> FALSE]
        ELSE [state |-> [ schedulerTask |-> TRUE, isRunning |-> TRUE,
                          currentSchedule |-> scheduleToUse,
                          timers |-> timers + 1 ],
              ok |-> TRUE]

\* scheduler.js: startScheduler(schedule), as the scheduler state it leaves
\* and whether it returned.  A running scheduler is stopped first; an
\* invalid schedule throws after that; otherwise a new cron task is
\* scheduled.
Started(schedule) ==
  LET before == IF isRunning THEN Stopped ELSE Unstopped
      scheduleToUse == IF Truthy(schedule) THEN schedule
                                           ELSE getBackupConfig.schedule
  IN  IF ~validate(scheduleToUse)
        THEN [state |-> before, ok |-> FALSE]
        ELSE [state |-> [ schedulerTask |-> TRUE, isRunning |-> TRUE,
                          currentSchedule |-> scheduleToUse,
                          timers |-> before.timers + 1 ],
              ok |-> TRUE]

SetScheduler(s) ==
  /\ schedulerTask' = s.schedulerTask
  /\ isRunning' = s.isRunning
  /\ currentSchedule' = s.currentSchedule
  /\ timers' = s.timers

startScheduler(schedule) ==
  /\ SetScheduler(Started(schedule).state)
  /\ Event("startScheduler", Started(schedule).ok, 0, "", 0, TRUE, 0)
  /\ UNCHANGED <<cfgVars, connVars, lastCall, hist, tempFiles, archVars, procs>>

stopScheduler ==
  /\ SetScheduler(Stopped)
  /\ Event("stopScheduler", TRUE, 0, "", 0, TRUE, 0)
  /\ UNCHANGED <<cfgVars, connVars, lastCall, hist, tempFiles, archVars, procs>>

\* scheduler.js: initializeScheduler(): starts the scheduler when auto-backup
\* is enabled, and only logs a failure to start.
initializeScheduler ==
  /\ IF getBackupConfig.auto
       THEN SetScheduler(Started(getBackupConfig.schedule).state)
       ELSE UNCHANGED schedVars
  /\ Event("initializeScheduler", TRUE, 0, "", 0, TRUE, 0)
  /\ UNCHANGED <<cfgVars, connVars, lastCall, hist, tempFiles, archVars, procs>>

\* A cron task that has not been stopped fires: executeBackupJob() starts,
\* whether or not an earlier run has returned.
executeBackupJob(p, dirOk) ==
  /\ timers > 0
  /\ BeginCreate(p, "job", dirOk)
  /\ UNCHANGED <<cfgVars, connVars, lastCall, hist, tempFiles, schedVars>>

\* The steps of a scheduled run in flight: the dump returns, the upload
\* settles, the retention sweep is made.
jobStep(p) ==
  /\ procs[p].kind = "job"
  /\ \/ \E ok \in BOOLEAN, size \in 1..MaxSize : dumpDone(p, ok, size)
     \/ \E ok \in BOOLEAN : uploadDone(p, ok)
     \/ /\ procs[p].pc = "retention"
        /\ \E fails \in ListFailures, d \in DeleteFailures : Sweep(fails, d[1], d[2], p)
        /\ procs' = [procs EXCEPT ![p] = IdleProc]
        /\ UNCHANGED <<clock, nextId>>
  /\ UNCHANGED <<cfgVars, connVars, lastCall, hist, tempFiles, schedVars>>

SchedNext ==
  \/ \E schedule \in ScheduleInputs : startScheduler(schedule)
  \/ stopScheduler
  \/ initializeScheduler
  \/ \E p \in ProcIds, dirOk \in BOOLEAN : executeBackupJob(p, dirOk)
  \/ \E p \in ProcIds : jobStep(p)
  \/ Tick

SpecSched == Init /\ [][SchedNext]_vars

\* -------------------------------------------- server.js, backup.js: restore

MaxTemps == 2   \* the copies of one backup that os.tmpdir() holds at most

\* s3.js: downloadFromS3() returns, or getObject throws, or writeFile throws
\* with the destination file already created.
DownloadOutcomes == {"ok", "getFails", "writeFails"}

AddTemp(f) == [tempFiles EXCEPT ![f] = @ + 1]

\* The mutant of postRestore: the download is tried in every storage mode.
postRestoreAnyMode(p, f, download, unlinkOk) ==
  LET storage == getBackupConfig.storage
      fileExists == localFiles[f] # NULL
      downloads == ~fileExists /\ isS3Configured
      got == downloads /\ remoteFiles[f] # NULL /\ download # "getFails"
      written == got /\ download = "ok"
      faults == IF downloads /\ remoteFiles[f] # NULL /\ ~written
                  THEN {"download"} ELSE {}
  IN  /\ FreeProc(p)
      /\ tempFiles[f] < MaxTemps
      /\ IF ~fileExists /\ ~written
           THEN /\ tempFiles' = IF got THEN AddTemp(f) ELSE tempFiles
                /\ UNCHANGED procs
                /\ Report("restoreNotFound", FALSE, f, "", 0, TRUE, p, faults)
           ELSE IF getDatabaseConfig = ConfigurationMissing
             THEN /\ tempFiles' = IF written /\ ~unlinkOk THEN AddTemp(f)
                                                         ELSE tempFiles
                  /\ UNCHANGED procs
                  /\ Report("restoreFailed", FALSE, f,
                            IF written THEN "temp" ELSE "local", 0, TRUE, p,
                            IF written /\ ~unlinkOk THEN {"unlink"} ELSE {})
             ELSE /\ tempFiles' = IF written THEN AddTemp(f) ELSE tempFiles
                  /\ procs' = [procs EXCEPT
                       ![p] = [kind |-> "restore", pc |-> "restoring", file |-> f,
                               storage |-> storage, size |-> 0, temp |-> written]]
                  /\ Report("restoreStart", TRUE, f,
                            IF written THEN "temp" ELSE "local", 0, TRUE, p, {})
      /\ lastList' = NoList
      /\ UNCHANGED <<cfgVars, connVars, lastCall, hist, archVars, schedVars>>

\* server.js: POST /api/restore up to the await of the restore tool.  A file
\* in the backup directory is used as it is; otherwise, in storage mode
\* remote or both with S3 configured, the object is downloaded to a
\* temporary file; with neither the answer is 404.  restoreBackup() then
\* throws when getDatabaseConfig() does, and the finally block unlinks the
\* temporary file (unless unlinkOk = FALSE).
postRestore(p, f, download, unlinkOk) ==
  LET storage == getBackupConfig.storage
      fileExists == localFiles[f] # NULL
      downloads == /\ ~fileExists
                   /\ storage = "remote" \/ storage = "both"
                   /\ isS3Configured
      got == downloads /\ remoteFiles[f] # NULL /\ download # "getFails"
      written == got /\ download = "ok"
      faults == IF downloads /\ remoteFiles[f] # NULL /\ ~written
                  THEN {"download"} ELSE {}
  IN  /\ FreeProc(p)
      /\ tempFiles[f] < MaxTemps
      /\ IF ~fileExists /\ ~written
           THEN /\ tempFiles' = IF got THEN AddTemp(f) ELSE tempFiles
                /\ UNCHANGED procs
                /\ Report("restoreNotFound", FALSE, f, "", 0, TRUE, p, faults)
           ELSE IF getDatabaseConfig = ConfigurationMissing
             THEN /\ tempFiles' = IF written /\ ~unlinkOk THEN AddTemp(f)
                                                         ELSE tempFiles
                  /\ UNCHANGED procs
                  /\ Report("restoreFailed", FALSE, f,
                            IF written THEN "temp" ELSE "local", 0, TRUE, p,
                            IF written /\ ~unlinkOk THEN {"unlink"} ELSE {})
             ELSE /\ tempFiles' = IF written THEN AddTemp(f) ELSE tempFiles
                  /\ procs' = [procs EXCEPT
                       ![p] = [kind |-> "restore", pc |-> "restoring", file |-> f,
                               storage |-> storage, size |-> 0, temp |-> written]]
                  /\ Report("restoreStart", TRUE, f,
                            IF written THEN "temp" ELSE "local", 0, TRUE, p, {})
      /\ lastList' = NoList
      /\ UNCHANGED <<cfgVars, connVars, lastCall, hist, archVars, schedVars>>

\* server.js: POST /api/restore after the restore tool returned (toolOk) or
\* failed: the finally block unlinks the temporary file, and only logs when
\* that fails.
restoreDone(p, toolOk, unlinkOk) ==
  /\ procs[p].kind = "restore"
  /\ procs[p].pc = "restoring"
  /\ tempFiles' = IF procs[p].temp /\ unlinkOk
                    THEN [tempFiles EXCEPT ![procs[p].file] = @ - 1]
                    ELSE tempFiles
  /\ procs' = [procs EXCEPT ![p] = IdleProc]
  /\ Report("restored", toolOk, procs[p].file,
            IF procs[p].temp THEN "temp" ELSE "local", 0, TRUE, p,
            IF procs[p].temp /\ ~unlinkOk THEN {"unlink"} ELSE {})
  /\ lastList' = NoList
  /\ UNCHANGED <<cfgVars, connVars, lastCall, hist, archVars, schedVars>>

\* The process is stopped and started again under deployment d: the module
\* state is as after import, what was in flight is gone; the backup
\* directory, the bucket and the temporary directory are as they were.
restart(d) ==
  /\ configMode' = d[1]
  /\ env' = d[2]
  /\ manualConfig' = [database |-> NULL, backup |-> NULL, s3 |-> NULL]
  /\ lastCall' = [op |-> "init", result |-> "ok", tick |-> 0]
  /\ hist' = HistInit
  /\ procs' = [p \in ProcIds |-> IdleProc]
  /\ SetScheduler([schedulerTask |-> FALSE, isRunning |-> FALSE,
                   currentSchedule |-> "", timers |-> 0])
  /\ Event("restart", TRUE, 0, "", 0, TRUE, 0)
  /\ tempConfig' = NULL
  /\ pool' = NULL
  /\ s3Client' = NULL
  /\ lastConfig' = NULL
  /\ seen' = SeenInit
  /\ UNCHANGED <<archVars, tempFiles>>

RestoreNext ==
  \/ \E p \in ProcIds, dirOk \in BOOLEAN : postBackups(p, dirOk)
  \/ \E p \in ProcIds : requestStep(p)
  \/ \E f \in Files, localOk \in BOOLEAN, remoteOk \in BOOLEAN :
       deleteBackup(f, localOk, remoteOk)
  \/ \E p \in ProcIds, f \in Files, download \in DownloadOutcomes,
        unlinkOk \in BOOLEAN : postRestore(p, f, download, unlinkOk)
  \/ \E p \in ProcIds, toolOk \in BOOLEAN, unlinkOk \in BOOLEAN :
       restoreDone(p, toolOk, unlinkOk)
  \/ \E d \in Deployments : restart(d)

SpecRestore == Init /\ [][RestoreNext]_vars

\* ------------------------ database.js, s3.js, server.js: the connections

\* Request bodies of POST /api/config and of POST /api/config/manual/database.
TempInputs ==
  { [host |-> "db.tmp", port |-> 8432, user |-> "tmpuser", password |-> "tmppw",
     database |-> "tmpdb"],
    [host |-> "", port |-> 8432, user |-> "tmpuser", password |-> "tmppw",
     database |-> "tmpdb"] }

\* The handlers' check of a body: "if (!host || !port || !user || !password ||
\* !database)", after the validators.
CompleteBody(b) ==
  /\ Truthy(b.host) /\ b.port \in 1..65535 /\ Truthy(b.user)
  /\ Truthy(b.password) /\ Truthy(b.database)

\* database.js: the options of new Pool(...) for a database configuration.
PoolOf(dbConfig) ==
  [ host |-> dbConfig.host, port |-> dbConfig.port, user |-> dbConfig.user,
    password |-> dbConfig.password, database |-> dbConfig.database ]

\* database.js: getPool() on the pool p and the database configuration db:
\* the pool it returns, or its failure with the pool left as it is.
GetPool(p, db) ==
  IF p # NULL THEN [pool |-> p, ok |-> TRUE]
  ELSE IF db = ConfigurationMissing THEN [pool |-> NULL, ok |-> FALSE]
  ELSE [pool |-> PoolOf(db), ok |-> TRUE]

\* database.js: resetPool(): closePool(), then getPool().
ResetPool(db) == GetPool(NULL, db)

\* What GET /api/config shows of a database configuration.
Shown(db) ==
  IF db = ConfigurationMissing THEN NULL
  ELSE [host |-> db.host, port |-> db.port, user |-> db.user,
        database |-> db.database]

\* config.js: setTempConfig(config), as the value it stores.
StoredTemp(config) ==
  [ host |-> config.host, port |-> config.port, user |-> config.user,
    password |-> config.password, database |-> config.database ]

\* server.js: POST /api/config: 400 on an incomplete body; otherwise
\* setTempConfig(), then resetPool().
postConfig(body) ==
  /\ IF ~CompleteBody(body)
       THEN /\ seen' = [op |-> "postConfig", ok |-> FALSE, used |-> NULL,
                        config |-> NULL]
            /\ UNCHANGED <<tempConfig, pool>>
       ELSE LET r == ResetPool(getDatabaseConfig)
            IN  /\ tempConfig' = StoredTemp(body)
                /\ pool' = r.pool
                /\ seen' = [op |-> "postConfig", ok |-> r.ok, used |-> r.pool,
                            config |-> Shown(StoredTemp(body))]
  /\ UNCHANGED <<cfgVars, lastCall, hist, nonCfgVars, s3Client, lastConfig>>

\* server.js: DELETE /api/config: clearTempConfig().
deleteConfig ==
  /\ tempConfig' = NULL
  /\ seen' = [op |-> "deleteConfig", ok |-> TRUE, used |-> NULL, config |-> NULL]
  /\ UNCHANGED <<cfgVars, lastCall, hist, nonCfgVars, pool, s3Client, lastConfig>>

\* server.js: GET /api/config: getDatabaseConfig(), shown without password.
getConfig ==
  /\ seen' = [op |-> "getConfig", ok |-> getDatabaseConfig # ConfigurationMissing,
              used |-> NULL, config |-> Shown(getDatabaseConfig)]
  /\ UNCHANGED <<cfgVars, lastCall, hist, nonCfgVars, tempConfig, pool,
                 s3Client, lastConfig>>

\* server.js: POST /api/config/mode (the validator admits env and manual):
\* setConfigMode(), and nothing else.
postConfigMode(mode) ==
  /\ setConfigMode(mode)
  /\ seen' = [op |-> "postConfigMode", ok |-> TRUE, used |-> NULL, config |-> NULL]
  /\ UNCHANGED <<tempConfig, pool, s3Client, lastConfig>>

\* server.js: POST /api/config/reset: 400 outside manual mode, otherwise
\* resetManualConfig(), and nothing else.
postConfigReset ==
  /\ IF configMode = "manual"
       THEN resetManualConfig
       ELSE UNCHANGED <<cfgVars, lastCall, hist, nonCfgVars>>
  /\ seen' = [op |-> "postConfigReset", ok |-> configMode = "manual",
              used |-> NULL, config |-> NULL]
  /\ UNCHANGED <<tempConfig, pool, s3Client, lastConfig>>

\* server.js: POST /api/config/manual/database: 400 on an incomplete body;
\* otherwise setManualDatabaseConfig(), which throws in env mode, then
\* resetPool() on the configuration just stored.
postManualDatabase(body) ==
  /\ CompleteBody(body)
  /\ setManualDatabaseConfig(
       [ host |-> body.host, port |-> body.port, user |-> body.user,
         password |-> body.password, database |-> body.database,
         schema |-> "", excludeTables |-> <<>> ])
  /\ LET r == ResetPool(DatabaseConfigFrom(configMode', manualConfig', env'))
     IN  IF lastCall'.result = "ok"
           THEN /\ pool' = r.pool
                /\ seen' = [op |-> "postManualDatabase", ok |-> r.ok,
                            used |-> r.pool, config |-> NULL]
           ELSE /\ pool' = pool
                /\ seen' = [op |-> "postManualDatabase", ok |-> FALSE,
                            used |-> NULL, config |-> NULL]
  /\ UNCHANGED <<tempConfig, s3Client, lastConfig>>

\* server.js: POST /api/config/test: testConnection() on getPool().
postConfigTest ==
  /\ LET r == GetPool(pool, getDatabaseConfig)
     IN  /\ pool' = r.pool
         /\ seen' = [op |-> "postConfigTest", ok |-> r.ok, used |-> r.pool,
                     config |-> IF getDatabaseConfig = ConfigurationMissing
                                  THEN NULL ELSE PoolOf(getDatabaseConfig)]
  /\ UNCHANGED <<cfgVars, lastCall, hist, nonCfgVars, tempConfig, s3Client,
                 lastConfig>>

\* s3.js: getS3Client(): the signature of a configuration.
Signature(config) ==
  [ accessKeyId |-> config.accessKeyId, region |-> config.region,
    endpoint |-> config.endpoint, s3ForcePathStyle |-> config.s3ForcePathStyle ]

\* s3.js: getS3Client(): the options of new AWS.S3(...) for a configuration.
ClientOf(config) ==
  [ accessKeyId |-> config.accessKeyId,
    secretAccessKey |-> config.secretAccessKey,
    region |-> config.region,
    endpoint |-> config.endpoint,
    s3ForcePathStyle |-> config.s3ForcePathStyle ]

\* The mutant of GetS3Client: a client, once created, is kept.
GetS3ClientOnce(client, last, config) ==
  IF client = NULL
    THEN [client |-> ClientOf(config), last |-> Signature(config)]
    ELSE [client |-> client, last |-> last]

\* s3.js: getS3Client() on the cached client and signature: the client is
\* created anew when there is none or the signature differs.
GetS3Client(client, last, config) ==
  IF client = NULL \/ last # Signature(config)
    THEN [client |-> ClientOf(config), last |-> Signature(config)]
    ELSE [client |-> client, last |-> last]

\* The remote operations: uploadToS3, listS3Backups, downloadFromS3,
\* deleteFromS3.
RemoteOps == {"upload", "list", "download", "delete"}

\* s3.js: the head of every remote operation: without configuration it
\* returns or throws before getS3Client(); otherwise getS3Client() gives the
\* handle the request is made on.
remoteOp(kind) ==
  /\ IF ~isS3Configured
       THEN /\ seen' = [op |-> kind, ok |-> FALSE, used |-> NULL, config |-> NULL]
            /\ UNCHANGED <<s3Client, lastConfig>>
       ELSE LET r == GetS3Client(s3Client, lastConfig, getS3Config)
            IN  /\ s3Client' = r.client
                /\ lastConfig' = r.last
                /\ seen' = [op |-> kind, ok |-> TRUE, used |-> r.client,
                            config |-> getS3Config]
  /\ UNCHANGED <<cfgVars, lastCall, hist, nonCfgVars, tempConfig, pool>>

\* server.js: POST /api/config/manual/s3: setManualS3Config(), and nothing
\* else: the client is looked at again by the next remote operation.
postManualS3(body) ==
  /\ setManualS3Config(body)
  /\ seen' = [op |-> "postManualS3", ok |-> lastCall'.result = "ok",
              used |-> NULL, config |-> body]
  /\ UNCHANGED <<tempConfig, pool, s3Client, lastConfig>>

\* server.js: POST /api/storage/config.
postStorageConfig(body) ==
  /\ updateStorageConfig(body)
  /\ seen' = [op |-> "postStorageConfig", ok |-> TRUE, used |-> NULL,
              config |-> NULL]
  /\ UNCHANGED <<tempConfig, pool, s3Client, lastConfig>>

\* The configurations the process starts in, for the connections.
ConnInitial ==
  /\ env \in {EnvProd, [EnvProd EXCEPT !.AWS_S3_ENDPOINT = <<>>]}
  /\ configMode \in {"env", "manual"}
  /\ manualConfig = [database |-> NULL, backup |-> NULL, s3 |-> NULL]
  /\ lastCall = [op |-> "init", result |-> "ok", tick |-> 0]
  /\ hist = HistInit
  /\ EngineInit

\* The requests that bear on the database pool.
PoolNext ==
  \/ \E body \in TempInputs : postConfig(body)
  \/ deleteConfig
  \/ getConfig
  \/ \E mode \in {"env", "manual"} : postConfigMode(mode)
  \/ postConfigReset
  \/ \E body \in TempInputs : postManualDatabase(body)
  \/ postConfigTest

SpecPool == ConnInitial /\ [][PoolNext]_vars

\* The requests that bear on the client of the remote archive.
ClientNext ==
  \/ \E kind \in RemoteOps : remoteOp(kind)
  \/ \E body \in S3Inputs : postManualS3(body)
  \/ \E body \in StorageBodies : postStorageConfig(body)
  \/ \E mode \in {"env", "manual"} : postConfigMode(mode)
  \/ postConfigReset

SpecClient == ConnInitial /\ [][ClientNext]_vars

\* ------------------------------------------- backup.js: paths of backups

\* A path or a filename input is the sequence of its components, the text
\* between the separators: "../../etc/passwd" is <<"..", "..", "etc", "passwd">>.

\* The name generateBackupFilename gave to backup f.
NameOf(f) == "backup_" \o ToString(f) \o ".sql"

\* The filename inputs: a backup's name, alone, below a directory, with a
\* trailing separator, behind a traversal; traversals to files outside; the
\* parent directory; the empty text.
FilenameInputs ==
  { <<NameOf(1)>>, <<"sub", NameOf(1)>>, <<NameOf(1), "">>,
    <<"..", NameOf(2)>>, <<"..", "..", "etc", "passwd">>, <<"..", "passwd">>,
    <<"..">>, <<"etc", "..">>, <<>> }

\* backupConfig.localPath, resolved: /data/backups.
BackupDir == <<"data", "backups">>

\* The files that exist outside the backup directory.
OutsideFiles == { <<"etc", "passwd">>, <<"data", "passwd">>, <<"passwd">> }

\* path.basename(filename): the last component, trailing separators dropped.
RECURSIVE basename(_)
basename(filename) ==
  IF filename = <<>> THEN ""
  ELSE IF filename[Len(filename)] = ""
         THEN basename(SubSeq(filename, 1, Len(filename) - 1))
         ELSE filename[Len(filename)]

\* path.join's normalisation: "" and "." are dropped, ".." leaves the
\* directory reached so far.
RECURSIVE normalize(_, _)
normalize(done, rest) ==
  IF rest = <<>> THEN done
  ELSE IF Head(rest) = "" \/ Head(rest) = "."
         THEN normalize(done, Tail(rest))
  ELSE IF Head(rest) = ".."
         THEN normalize(IF done = <<>> THEN <<>>
                                       ELSE SubSeq(done, 1, Len(done) - 1),
                        Tail(rest))
  ELSE normalize(Append(done, Head(rest)), Tail(rest))

\* The mutant of getLocalBackupPath: the filename is joined as it is given.
getLocalBackupPathUnsafe(filename) == normalize(BackupDir, filename)

\* backup.js: getLocalBackupPath(filename), and the same expression in
\* deleteLocalBackup and restoreBackup:
\* path.join(backupConfig.localPath, path.basename(filename)).
getLocalBackupPath(filename) == normalize(BackupDir, <<basename(filename)>>)

\* The backup whose file is at the path, or 0.
BackupAt(filepath) ==
  IF \E f \in Files : filepath = Append(BackupDir, NameOf(f))
    THEN CHOOSE f \in Files : filepath = Append(BackupDir, NameOf(f))
    ELSE 0

\* There is a file at the path: a backup in the backup directory, or one of
\* the files outside; anything else is a directory or nothing.
IsFile(filepath) ==
  \/ BackupAt(filepath) # 0 /\ localFiles[BackupAt(filepath)] # NULL
  \/ filepath \in OutsideFiles

\* backup.js: deleteLocalBackup(filename): fs.unlink of the path, which
\* throws unless there is a file.
deleteLocalBackup(filename) ==
  LET filepath == getLocalBackupPath(filename)
  IN  /\ seen' = [op |-> "deleteLocalBackup", ok |-> IsFile(filepath),
                  used |-> filepath, config |-> filename]
      /\ localFiles' = IF IsFile(filepath) /\ BackupAt(filepath) # 0
                         THEN [localFiles EXCEPT ![BackupAt(filepath)] = NULL]
                         ELSE localFiles
      /\ UNCHANGED <<cfgVars, lastCall, hist, clock, nextId, remoteFiles, procs,
                     schedVars, resp, lastList, prev, tempFiles, tempConfig,
                     pool, s3Client, lastConfig>>

\* backup.js: restoreBackup(filename), without a custom path: the restore
\* tool reads the file at the path; ok tells that a file was read.
restoreBackup(filename) ==
  LET filepath == getLocalBackupPath(filename)
  IN  /\ seen' = [op |-> "restoreBackup",
                  ok |-> getDatabaseConfig # ConfigurationMissing /\ IsFile(filepath),
                  used |-> filepath, config |-> filename]
      /\ UNCHANGED <<cfgVars, lastCall, hist, nonCfgVars, tempConfig, pool,
                     s3Client, lastConfig>>

\* backup.js: getLocalBackupPath(filename), called on its own.
resolvePath(filename) ==
  /\ seen' = [op |-> "getLocalBackupPath", ok |-> TRUE,
              used |-> getLocalBackupPath(filename), config |-> filename]
  /\ UNCHANGED <<cfgVars, lastCall, hist, nonCfgVars, tempConfig, pool,
                 s3Client, lastConfig>>

PathNext ==
  \/ \E p \in RequestSlots, dirOk \in BOOLEAN : postBackups(p, dirOk)
  \/ \E p \in RequestSlots : requestStep(p)
  \/ \E filename \in FilenameInputs : deleteLocalBackup(filename)
  \/ \E filename \in FilenameInputs : restoreBackup(filename)
  \/ \E filename \in FilenameInputs : resolvePath(filename)

SpecPath == Init /\ [][PathNext]_vars

\* --------------------------- server.js: create requests and the configuration

\* Create requests, suspended at the dump and at the upload, among requests
\* that change the configuration mode and the settings of the remote archive.
RaceNext ==
  \/ \E p \in RequestSlots, dirOk \in BOOLEAN : postBackups(p, dirOk)
  \/ \E p \in RequestSlots : requestStep(p)
  \/ \E mode \in {"env", "manual"} : postConfigMode(mode)
  \/ \E body \in S3Inputs : postManualS3(body)

SpecRace == Init /\ [][RaceNext]_vars

\* ================================================================ claims

\* In manual mode the write of getS3Config into manualConfig.s3 is a no-op.
S3ReadIsPure ==
  manualConfig.s3 # NULL => AutoDetect(manualConfig.s3) = manualConfig.s3

\* Manual stores the setters can build: the empty one, and for each database
\* body one with every entry set.
ManualStores ==
  { [database |-> NULL, backup |-> NULL, s3 |-> NULL] } \cup
  { [database |-> StoredDatabase(d), backup |-> StoredBackup(b), s3 |-> StoredS3(c)] :
      d \in DbInputs,
      b \in {i \in BackupInputs : i.storage = "remote"},
      c \in {i \in S3Inputs : i.endpoint = MinioEndpoint} }

\* C7: a read is never a mix of the two sources.  In env mode the three
\* readers return the same snapshot whatever the manual store holds, and in
\* manual mode they return the same snapshot whatever the environment holds.
C7_NeverMixed ==
  /\ configMode = "env" =>
       \A m \in ManualStores :
         /\ DatabaseConfigFrom(configMode, m, env) = getDatabaseConfig
         /\ BackupConfigFrom(configMode, m, env) = getBackupConfig
         /\ S3ConfigFrom(configMode, m, env) = getS3Config
  /\ configMode = "manual" =>
       \A e \in Envs :
         /\ DatabaseConfigFrom(configMode, manualConfig, e) = getDatabaseConfig
         /\ BackupConfigFrom(configMode, manualConfig, e) = getBackupConfig
         /\ S3ConfigFrom(configMode, manualConfig, e) = getS3Config

\* C7 witness: manual mode over a fully set environment, the database set at
\* runtime and the backup policy not set (so the policy read is the defaults).
C7_Witness ==
  /\ configMode = "manual"
  /\ env.BACKUP_STORAGE = "both"
  /\ manualConfig.database # NULL
  /\ manualConfig.backup = NULL
  /\ lastCall.op = "setManualDatabaseConfig"

\* C8 as stated: after a switch into manual mode, until a setter is called
\* after that switch, the database read fails and the policy read is the
\* defaults.
C8_Original ==
  (configMode = "manual" /\ hist.switched) =>
     /\ ~hist.dbSinceSwitch => getDatabaseConfig = ConfigurationMissing
     /\ ~hist.backupSinceSwitch => getBackupConfig = BackupDefaults

\* C8 amended: a mode switch leaves the manual store as it was.  After a
\* switch into manual mode the database read fails exactly when no database
\* configuration was set since startup or the last reset, and the policy
\* read is the defaults when no policy was set since startup or the last
\* reset.
C8_SwitchKeepsStore ==
  (configMode = "manual" /\ hist.switched) =>
     /\ (getDatabaseConfig = ConfigurationMissing) <=> ~hist.dbSet
     /\ ~hist.backupSet => getBackupConfig = BackupDefaults

\* C8 witness: back in manual mode after a round trip through env mode, no
\* setter called since, and the database configuration set before is read.
C8_Witness ==
  /\ configMode = "manual"
  /\ hist.switched
  /\ ~hist.dbSinceSwitch
  /\ hist.dbSet
  /\ getDatabaseConfig # ConfigurationMissing

\* C9: in env mode each setter and the reset fail with InvalidModeOperation
\* and leave the mode and the manual store unchanged.
C9_SettersRejected ==
  [][ (lastCall' # lastCall /\ configMode = "env" /\ lastCall'.op \in SetterOps)
        => /\ lastCall'.result = "InvalidModeOperation"
           /\ configMode' = configMode
           /\ manualConfig' = manualConfig ]_vars

\* C9 witness: a reset rejected in env mode while the store holds values.
C9_Witness ==
  /\ configMode = "env"
  /\ lastCall.op = "resetManualConfig"
  /\ lastCall.result = "InvalidModeOperation"
  /\ manualConfig.database # NULL
  /\ manualConfig.backup # NULL

\* C10: in manual mode, after a reset and before the next successful
\* setManualDatabaseConfig, getDatabaseConfig fails with ConfigurationMissing.
C10_ResetIsolates ==
  (configMode = "manual" /\ hist.afterReset) =>
     getDatabaseConfig = ConfigurationMissing

\* C10 witness: manual mode over a fully set environment, after a reset that
\* cleared a database configuration, with a mode round trip since.
C10_Witness ==
  /\ configMode = "manual"
  /\ hist.afterReset
  /\ hist.resetCleared
  /\ hist.switched
  /\ env.DB_HOST = "db.env"

\* The entries of the last listing that carry filename f.
Entries(f) ==
  {i \in DOMAIN lastList.backups : lastList.backups[i].filename = f}

\* A location consistent with the configured storage mode; with storage
\* "remote" and the remote archive unconfigured, any location is accepted.
ConsistentLocation(location) ==
  LET storage == getBackupConfig.storage
  IN  /\ storage = "local" => location = "local"
      /\ (storage = "remote" /\ isS3Configured) => location = "remote"
      /\ storage = "both" =>
           location = (IF isS3Configured THEN "both" ELSE "local")

\* C1: a backup whose creation succeeded is reported by the very next
\* listing (one that met no listing failure) under its filename, with a
\* size above 0 and a location consistent with the storage mode.
C1_RoundTrip ==
  (prev.op = "created" /\ resp.op = "listAll" /\ resp.clean) =>
    \E i \in Entries(prev.file) :
      /\ lastList.backups[i].size > 0
      /\ ConsistentLocation(lastList.backups[i].location)

\* A backup whose dump is complete, held by some archive.
Present(f) ==
  /\ localFiles[f] # NULL \/ remoteFiles[f] # NULL
  /\ localFiles[f] # NULL => ~localFiles[f].partial

\* createdAt of a reconciled artifact: the local file's date when there is a
\* local file, the remote object's otherwise.
CreatedAt(f) ==
  IF localFiles[f] # NULL THEN localFiles[f].date ELSE remoteFiles[f].date

\* C2: a retention sweep that met no failure has deleted every artifact
\* created before the cutoff from each archive holding it, and has left
\* every other artifact where it was.
C2_RetentionSweep ==
  [][ (resp'.op = "retention" /\ resp'.clean) =>
        \A f \in Files :
          Present(f) =>
            IF Expired(CreatedAt(f))
              THEN localFiles'[f] = NULL /\ remoteFiles'[f] = NULL
              ELSE localFiles'[f] = localFiles[f] /\ remoteFiles'[f] = remoteFiles[f]
    ]_vars

\* C3 as stated: the second of two sweeps in succession returns 0.
C3_Original ==
  (prev.op = "retention" /\ resp.op = "retention") => resp.count = 0

\* C3: the second of two sweeps in succession returns 0 when the first one
\* met no listing failure and no deletion failure.
C3_IdempotentAfterClean ==
  (prev.op = "retention" /\ prev.clean /\ resp.op = "retention") =>
    resp.count = 0

C3_Witness ==
  /\ prev.op = "retention" /\ prev.clean /\ prev.count > 0
  /\ resp.op = "retention" /\ resp.count = 0

\* The listings that listAllBackups fetches under the current configuration.
FetchesLocal ==
  getBackupConfig.storage = "local" \/ getBackupConfig.storage = "both"

FetchesRemote ==
  (getBackupConfig.storage = "remote" \/ getBackupConfig.storage = "both")
    /\ isS3Configured

LocationsOf(f) == {lastList.backups[i].location : i \in Entries(f)}

RunsInFlight == {p \in ProcIds : procs[p].kind = "job" /\ procs[p].pc # "idle"}

\* C5: the scheduler starts no scheduled run while an earlier one is still
\* in flight: at most one scheduled run is in flight at any time.
C5_NoOverlap == Cardinality(RunsInFlight) <= 1

\* A step that leaves every backup but f alone.
OnlyTouches(f) ==
  /\ remoteFiles' = remoteFiles
  /\ \A g \in Files : g # f => localFiles'[g] = localFiles[g]

\* C6: a scheduled run goes from Creating to Uploading exactly when the dump
\* succeeded and the storage mode is remote or both with the remote archive
\* configured, from Creating to RetentionSweep when the dump succeeded and no
\* upload is due, from Uploading to RetentionSweep when the upload succeeded,
\* and from RetentionSweep to Idle by the sweep; a failed dump or upload
\* takes it to Idle with no sweep made and the scheduler left as it was.
C6_RunOrder ==
  [][ \A p \in ProcIds :
        LET a == procs[p]
            b == procs'[p]
        IN  ((a.kind = "job" \/ b.kind = "job") /\ a # b) =>
              \/ /\ a.pc = "idle" /\ b.pc = "creating"
              \/ /\ a.pc = "creating" /\ b.pc = "uploading"
                 /\ resp'.op = "dump" /\ resp'.ok
                 /\ WantsUpload(a.storage)
                 /\ localFiles'[a.file] # NULL
              \/ /\ a.pc = "creating" /\ b.pc = "retention"
                 /\ resp'.op = "created"
                 /\ ~WantsUpload(a.storage)
                 /\ localFiles'[a.file] # NULL
              \/ /\ a.pc = "uploading" /\ b.pc = "retention"
                 /\ resp'.op = "created"
                 /\ remoteFiles'[a.file] # NULL
              \/ /\ a.pc \in {"creating", "uploading"} /\ b = IdleProc
                 /\ resp'.op = "createFailed"
                 /\ OnlyTouches(a.file)
                 /\ schedVars' = schedVars
              \/ /\ a.pc = "retention" /\ b = IdleProc
                 /\ resp'.op = "retention" /\ resp'.proc = p
    ]_vars

C6_Witness ==
  \E p \in ProcIds :
    /\ procs[p].kind = "job" /\ procs[p].pc = "retention"
    /\ remoteFiles[procs[p].file] # NULL
    /\ resp.op = "created"

\* The flags of the answer of DELETE /api/backups/:filename.
DeletedLocal(r) == r.location = "local" \/ r.location = "both"

DeletedRemote(r) == r.location = "remote" \/ r.location = "both"

\* C11: a deletion request deletes the local file when the storage mode is
\* local or both and the unlink does not fail, and the remote object when the
\* storage mode is remote or both (the remote archive being configured) and
\* the service does not fail, whatever became of the local deletion; each
\* flag of the answer is true exactly when that deletion was made, and the
\* request fails exactly when neither was.
C11_DeleteBackup ==
  [][ resp'.op = "delete" =>
        LET f == resp'.file
            storage == getBackupConfig.storage
        IN  /\ DeletedLocal(resp') <=> (localFiles[f] # NULL /\ localFiles'[f] = NULL)
            /\ DeletedLocal(resp') => (storage = "local" \/ storage = "both")
            /\ ( /\ storage = "local" \/ storage = "both"
                 /\ localFiles[f] # NULL
                 /\ "local" \notin resp'.faults ) => DeletedLocal(resp')
            /\ DeletedRemote(resp') =>
                 /\ storage = "remote" \/ storage = "both"
                 /\ remoteFiles'[f] = NULL
            /\ ~DeletedRemote(resp') => remoteFiles' = remoteFiles
            /\ ( /\ storage = "remote" \/ storage = "both"
                 /\ isS3Configured
                 /\ "remote" \notin resp'.faults ) => DeletedRemote(resp')
            /\ resp'.ok <=> (DeletedLocal(resp') \/ DeletedRemote(resp'))
            /\ \A g \in Files : g # f =>
                 localFiles'[g] = localFiles[g] /\ remoteFiles'[g] = remoteFiles[g]
    ]_vars

\* The local deletion failed on a file that is there, and the remote object
\* was deleted all the same.
C11_Witness ==
  /\ resp.op = "delete" /\ resp.ok
  /\ resp.faults = {"local"}
  /\ localFiles[resp.file] # NULL
  /\ resp.location = "remote"

\* The answers of POST /api/restore that come before the restore tool runs.
RestoreAnswers == {"restoreStart", "restoreNotFound", "restoreFailed"}

C13_TempCleanup ==
  [][ "unlink" \notin resp'.faults =>
        /\ resp'.op \in {"restoreNotFound", "restoreFailed"} =>
             tempFiles' = tempFiles /\ localFiles' = localFiles
        /\ resp'.op = "restored" =>
             /\ localFiles' = localFiles
             /\ tempFiles' =
                  IF procs[resp'.proc].temp
                    THEN [tempFiles EXCEPT ![resp'.file] = @ - 1]
                    ELSE tempFiles
    ]_vars

DumpEndsUnconfigured ==
  /\ resp'.proc \in ProcIds
  /\ procs[resp'.proc].pc = "creating"
  /\ procs[resp'.proc].kind = "request"
  /\ procs[resp'.proc].storage \in {"remote", "both"}
  /\ ~isS3Configured
  /\ resp'.op \in {"dump", "created", "createFailed"}

\* C15: with storage mode remote or both and the remote archive not
\* configured, a create request whose dump succeeded answers success with
\* location "local" straight after the dump: there is no upload step and the
\* remote archive is unchanged; it fails only when the dump itself failed
\* (then the local file is gone).
C15_UnconfiguredNotFatal ==
  [][ DumpEndsUnconfigured =>
        /\ resp'.op # "dump"
        /\ remoteFiles' = remoteFiles
        /\ procs'[resp'.proc] = IdleProc
        /\ resp'.op = "created" =>
             /\ resp'.ok
             /\ resp'.location = "local"
             /\ localFiles'[resp'.file] # NULL
             /\ ~localFiles'[resp'.file].partial
        /\ resp'.op = "createFailed" => localFiles'[resp'.file] = NULL ]_vars

\* A backup was created in mode remote or both without a configured remote
\* archive: it is reported as local and the remote archive does not hold it.
C15_Witness ==
  /\ resp.op = "created"
  /\ resp.location = "local"
  /\ getBackupConfig.storage \in {"remote", "both"}
  /\ ~isS3Configured
  /\ localFiles[resp.file] # NULL
  /\ remoteFiles[resp.file] = NULL

\* C16: a create request that succeeds leaves its backup only in the remote
\* archive in storage mode remote (with the remote archive configured), only
\* in the local archive in mode local, and in both archives in mode both
\* (where a concurrent delete request has not removed the local file during
\* the upload).
C16_StoredWhereModeSays ==
  [][ (resp'.op = "created" /\ resp'.proc \in ProcIds
         /\ procs[resp'.proc].kind = "request") =>
        LET f == resp'.file
            storage == procs[resp'.proc].storage
        IN  /\ (storage = "remote" /\ isS3Configured) =>
                 remoteFiles'[f] # NULL /\ localFiles'[f] = NULL
            /\ storage = "local" =>
                 localFiles'[f] # NULL /\ remoteFiles'[f] = NULL
            /\ (storage = "both" /\ isS3Configured) =>
                 (localFiles[f] # NULL =>
                    localFiles'[f] # NULL /\ remoteFiles'[f] # NULL) ]_vars

\* The entries of the last listing are exactly at the locations in locs.
AllAt(locs) ==
  \A i \in DOMAIN lastList.backups : lastList.backups[i].location \in locs

\* C17: a listing request succeeds whichever listing failed; the side whose
\* listing failed contributes nothing (no entry is local or both, resp.
\* remote or both), and every file of the other side, where that side was
\* listed, has its entry in the merged result.
C17_BestEffortListing ==
  (resp.op = "listAll" /\ lastList # NoList) =>
    /\ resp.ok
    /\ "local" \in resp.faults =>
         /\ AllAt({"remote"})
         /\ (FetchesRemote /\ "remote" \notin resp.faults) =>
              \A f \in Files : remoteFiles[f] # NULL => Entries(f) # {}
    /\ "remote" \in resp.faults =>
         /\ AllAt({"local"})
         /\ (FetchesLocal /\ "local" \notin resp.faults) =>
              \A f \in Files : localFiles[f] # NULL => Entries(f) # {}

\* The local listing failed and the entry of a remote file is reported.
C17_Witness ==
  /\ resp.op = "listAll"
  /\ "local" \in resp.faults
  /\ \E f \in Files : remoteFiles[f] # NULL /\ localFiles[f] # NULL
                        /\ LocationsOf(f) = {"remote"}

\* The remote listing failed and the entry of a local file is reported.
C17_WitnessRemoteDown ==
  /\ resp.op = "listAll"
  /\ "remote" \in resp.faults
  /\ \E f \in Files : remoteFiles[f] # NULL /\ localFiles[f] # NULL
                        /\ LocationsOf(f) = {"local"}

\* The step removes f from an archive that held it.
Removed(f) ==
  \/ localFiles[f] # NULL /\ localFiles'[f] = NULL
  \/ remoteFiles[f] # NULL /\ remoteFiles'[f] = NULL

\* C18 as stated: the count a sweep returns is the number of artifacts it
\* removed from at least one archive.
C18_Original ==
  [][ resp'.op = "retention" =>
        resp'.count = Cardinality({f \in Files : Removed(f)}) ]_vars

\* C18: the count a sweep returns is the number of artifacts it removed whose
\* deletion did not fail, one for each artifact whether it was removed from
\* one archive or from both; the artifact whose remote deletion failed after
\* its local file was removed is not counted.
C18_CountsCompletedDeletions ==
  [][ resp'.op = "retention" =>
        resp'.count =
          Cardinality({f \in Files : Removed(f) /\ f # resp'.file}) ]_vars

\* A sweep has counted one artifact, which no archive holds any more, and has
\* met a failed deletion on the other.
C18_Witness ==
  /\ resp.op = "retention"
  /\ resp.count = 1
  /\ resp.file \in Files
  /\ \E f \in Files \ {resp.file} :
       f < nextId /\ localFiles[f] = NULL /\ remoteFiles[f] = NULL

\* The reconciled listing has an entry for g: an archive that is listed
\* holds it.
Listed(g) ==
  \/ FetchesLocal /\ localFiles[g] # NULL
  \/ FetchesRemote /\ remoteFiles[g] # NULL

\* The date of g's entry in the reconciled listing: the local file's when
\* the local listing has it.
ListedDate(g) ==
  IF FetchesLocal /\ localFiles[g] # NULL
    THEN localFiles[g].date ELSE remoteFiles[g].date

\* C19: a sweep in which the deletion of an artifact failed returns normally,
\* and (its listings having succeeded) has deleted every other expired
\* artifact of its listing from the archives that it lists.
C19_SweepContinues ==
  [][ (resp'.op = "retention" /\ resp'.file \in Files) =>
        /\ resp'.ok
        /\ resp'.faults = {} =>
             \A g \in Files \ {resp'.file} :
               (Listed(g) /\ Expired(ListedDate(g))) =>
                 /\ FetchesLocal => localFiles'[g] = NULL
                 /\ FetchesRemote => remoteFiles'[g] = NULL ]_vars

\* The deletion of the first artifact of a sweep failed, the artifact is
\* still there, and the artifact after it is deleted.
C19_Witness ==
  /\ resp.op = "retention" /\ resp.ok /\ resp.faults = {}
  /\ resp.file \in Files
  /\ localFiles[resp.file] # NULL \/ remoteFiles[resp.file] # NULL
  /\ \E g \in Files :
       /\ resp.file < g /\ g < nextId
       /\ localFiles[g] = NULL /\ remoteFiles[g] = NULL

\* The number of entries of the local listing, as listAllBackups fetches it.
LocalListingCount ==
  IF FetchesLocal THEN Cardinality({f \in Files : localFiles[f] # NULL}) ELSE 0

\* The number of artifacts of the last listing at one of the locations locs.
CountAt(locs) ==
  Cardinality({i \in DOMAIN lastList.backups : lastList.backups[i].location \in locs})

StatusRunning == isRunning

\* C21: at most one timer is active in every state, so also after a start on
\* a running scheduler, whose timer the start has stopped; and a timer is
\* active exactly when the status says running.
C21_SingleTimer ==
  /\ timers \in {0, 1}
  /\ timers = 1 <=> StatusRunning
  /\ schedulerTask <=> StatusRunning

\* The scheduler, started again with another schedule while a run it fired
\* is in flight, has one timer.
C21_Witness ==
  /\ resp.op = "startScheduler" /\ resp.ok
  /\ StatusRunning /\ timers = 1
  /\ currentSchedule = "*/5 * * * *"
  /\ RunsInFlight # {}

\* C26: a start that fails on an invalid cron expression leaves the scheduler
\* as it was: a scheduler running with a schedule still runs with it, and
\* its timer is still active.
C26_FailedStartKeepsState ==
  [][ (resp'.op = "startScheduler" /\ ~resp'.ok) =>
        /\ isRunning' = isRunning
        /\ currentSchedule' = currentSchedule
        /\ schedulerTask' = schedulerTask
        /\ timers' = timers ]_vars

\* C22: while a temporary database configuration is set, the current database
\* configuration (getDatabaseConfig, GET /api/config) is the one that was
\* set; once it is cleared, the configuration is that of the environment
\* variables again.
C22_TempConfigIsCurrent ==
  /\ tempConfig # NULL =>
       /\ getDatabaseConfig # ConfigurationMissing
       /\ PoolOf(getDatabaseConfig) = tempConfig
  /\ (tempConfig = NULL /\ configMode = "env") =>
       getDatabaseConfig = DatabaseConfigFrom("env", manualConfig, env)

\* C30: the pool a connection test uses was created from the database
\* configuration that getDatabaseConfig() returns at the time of the test.
C30_PoolFollowsConfig ==
  (seen.op = "postConfigTest" /\ seen.ok) => seen.used = seen.config

\* The four fields of a configuration that the client cache compares.
Tuple(c) ==
  [ accessKeyId |-> c.accessKeyId, region |-> c.region,
    endpoint |-> c.endpoint, s3ForcePathStyle |-> c.s3ForcePathStyle ]

\* C25: the handle a remote operation uses was created from a configuration
\* whose accessKeyId, region, endpoint and forcePathStyle are those of the
\* configuration current at the operation; it is the handle cached before
\* the operation when those four did not change since it was created, and a
\* new one otherwise.
C25_ClientCache ==
  [][ (seen'.op \in RemoteOps /\ seen'.ok) =>
        /\ Tuple(seen'.used) = Tuple(getS3Config)
        /\ lastConfig' = Tuple(getS3Config)
        /\ s3Client' = seen'.used
        /\ (s3Client # NULL /\ Tuple(s3Client) = Tuple(getS3Config)) =>
             seen'.used = s3Client
        /\ (s3Client = NULL \/ Tuple(s3Client) # Tuple(getS3Config)) =>
             seen'.used = ClientOf(getS3Config) ]_vars

\* A remote operation was made on a handle created for it, after the mode
\* was switched to a manual configuration with another endpoint.
C25_Witness ==
  /\ seen.op \in RemoteOps /\ seen.ok
  /\ configMode = "manual"
  /\ hist.switched
  /\ seen.used.endpoint = MinioEndpoint
  /\ seen.used.accessKeyId = "MANKEY"

\* C24: after the remote-storage configuration was set, the forcePathStyle
\* that getS3Config returns is the value the caller set when the caller set
\* the flag; otherwise it is true exactly when the endpoint contains (in any
\* letter case) one of the known self-hosted services, so false without an
\* endpoint.
C24_ForcePathStyle ==
  (seen.op = "postManualS3" /\ seen.ok) =>
    getS3Config.s3ForcePathStyle =
      IF seen.config.flagGiven
        THEN seen.config.s3ForcePathStyle
        ELSE /\ seen.config.endpoint # <<>>
             /\ \E service \in forcePathStyleServices :
                  includes(toLowerCase(seen.config.endpoint), service)

\* A path directly inside the backup directory.
InsideBackupDir(filepath) ==
  /\ Len(filepath) = Len(BackupDir) + 1
  /\ SubSeq(filepath, 1, Len(BackupDir)) = BackupDir

C23_WitnessParent ==
  /\ seen.op = "deleteLocalBackup" /\ ~seen.ok
  /\ seen.config = <<"..">>
  /\ seen.used = <<"data">>

\* C27: when a create request reports failure, the dump having failed or
\* the upload having failed after the dump, neither the local nor the remote
\* archive holds a file of that request.
C27_FailedCreateLeavesNothing ==
  (resp.op = "createFailed" /\ resp.file # 0) =>
    localFiles[resp.file] = NULL /\ remoteFiles[resp.file] = NULL

\* Backup f is being written by the dump tool of a createBackup call of P.
InFlight(P, f) ==
  \E p \in ProcIds : P[p].pc = "creating" /\ P[p].file = f

\* C29: a listing returned by listAll() never has an entry for a backup whose
\* createBackup call is still in flight, the dump tool still writing the
\* file; and a createBackup call that fails leaves its file in neither
\* archive, so that no later listing has it.
C29_OnlyCompletedListed ==
  [][ /\ resp'.op = "listAll" =>
           \A i \in DOMAIN lastList'.backups :
             ~InFlight(procs', lastList'.backups[i].filename)
      /\ \A p \in ProcIds :
           (procs[p].pc = "creating" /\ resp'.op = "createFailed"
              /\ resp'.proc = p) =>
             /\ localFiles'[procs[p].file] = NULL
             /\ remoteFiles'[procs[p].file] = NULL ]_vars

\* C28: the location that a create request reports is remote or both exactly
\* when the request uploaded its backup to the remote archive, and local
\* exactly when it did not, also when the configuration mode or the settings
\* of the remote archive change while the request waits for the dump or for
\* the upload.
C28_LocationMatchesPlacement ==
  [][ (resp'.op = "created" /\ resp'.proc \in ProcIds
         /\ procs[resp'.proc].kind = "request") =>
        LET uploaded == procs[resp'.proc].pc = "uploading"
        IN  /\ resp'.location \in {"remote", "both"} <=> uploaded
            /\ resp'.location = "local" <=> ~uploaded ]_vars

=============================================================================
